---------------------------- MODULE Spec2Model ----------------------------
(***************************************************************************)
(* A model of the DHT group chat engine of toxcore: the lossless ordered   *)
(* channel of a peer link, the founder-signed shared state and moderator   *)
(* list, the sanctions list, and the role checks of the moderation and     *)
(* message-sending operations.                                             *)
(*                                                                         *)
(* The implementation files group_chats.c, group_connection.c and          *)
(* group_moderation.c are not part of the source bundle.  The operations   *)
(* are modelled from the contracts the bundle does hold: the declarations  *)
(* of group_chats.h, the API documentation of tox.h, the protocol          *)
(* documents under docs/ and the auto test.  Where none of these speaks    *)
(* the natural-language specification is followed; those definitions are   *)
(* marked as such in the model map.                                        *)
(***************************************************************************)
EXTENDS Integers, Sequences, FiniteSets, TLC

(***************************************************************************)
(* Part 1.  The lossless channel of one link, sender -> receiver.          *)
(***************************************************************************)

\* Number of lossless packets the sending application submits.
MaxMsgs == 2
\* Transmissions of one packet after which the link is declared Failed.
MaxAttempts == 2

\* Group_Message_Ack_Type
GR_ACK_RECV == 0
GR_ACK_REQ == 1

VARIABLES
    send_message_id,      \* sender: the id the next lossless packet gets
    send_array,           \* sender: unacknowledged id -> transmissions made
    net_data,             \* lossless datagrams in flight (ids)
    net_ack,              \* MESSAGE_ACK datagrams in flight (<<id, type>>)
    received_message_id,  \* receiver: last id processed in order
    recv_array,           \* receiver: ids buffered out of order
    delivered,            \* receiver: what the message upcall has seen, in order
    last_msg_recv,        \* the test handler's State.last_msg_recv
    link                  \* "Confirmed" or "Failed"

lvars == <<send_message_id, send_array, net_data, net_ack,
           received_message_id, recv_array, delivered, last_msg_recv, link>>

\* The auto test numbers its messages 0, 1, 2, ... while message ids start
\* at 1: the packet with id k carries the decimal string of k - 1.
Payload(id) == id - 1

\* The test's handler: n == last_msg_recv + 1 is asserted for every message.
group_message_handler_2(last, n) == n = last + 1

\* Ids assigned by the sender so far, and the ids still in its send window.
Ids == 1..MaxMsgs
SendWindow == {id \in Ids : send_array[id] > 0}

InitLossless ==
    /\ send_message_id = 1
    /\ send_array = [id \in Ids |-> 0]
    /\ net_data = {}
    /\ net_ack = {}
    /\ received_message_id = 0
    /\ recv_array = {}
    /\ delivered = <<>>
    /\ last_msg_recv = -1
    /\ link = "Confirmed"

\* The ids id, id+1, ... that are consecutively present in the out-of-order
\* buffer `buf` directly behind the in-order packet `id`: the last of them.
RECURSIVE DrainTo(_, _)
DrainTo(id, buf) == IF id + 1 \in buf THEN DrainTo(id + 1, buf) ELSE id

\* The ids from..to as a sequence, in id order.
IdSeq(from, to) == [k \in 1..(to - from + 1) |-> from + k - 1]

\* A receiver that hands an out-of-order packet to the application at once.
HandleEager(id, rmid, buf) ==
    IF id = rmid + 1
    THEN [deliver |-> IdSeq(id, DrainTo(id, buf)), rmid |-> DrainTo(id, buf),
          buf |-> buf \ (id..DrainTo(id, buf)), ack |-> <<id, GR_ACK_RECV>>]
    ELSE IF id > rmid + 1
    THEN [deliver |-> <<id>>, rmid |-> rmid, buf |-> buf,
          ack |-> <<rmid + 1, GR_ACK_REQ>>]
    ELSE [deliver |-> <<>>, rmid |-> rmid, buf |-> buf,
          ack |-> <<id, GR_ACK_RECV>>]

\* A receiver that processes an already received packet again.
HandleRedeliver(id, rmid, buf) ==
    IF id = rmid + 1
    THEN [deliver |-> IdSeq(id, DrainTo(id, buf)), rmid |-> DrainTo(id, buf),
          buf |-> buf \ (id..DrainTo(id, buf)), ack |-> <<id, GR_ACK_RECV>>]
    ELSE IF id > rmid + 1
    THEN [deliver |-> <<>>, rmid |-> rmid, buf |-> buf \cup {id},
          ack |-> <<rmid + 1, GR_ACK_REQ>>]
    ELSE [deliver |-> <<id>>, rmid |-> rmid, buf |-> buf,
          ack |-> <<id, GR_ACK_RECV>>]

\* A receiver that processes the expected packet and leaves its successors
\* in the out-of-order buffer.
HandleNoDrain(id, rmid, buf) ==
    IF id = rmid + 1
    THEN [deliver |-> <<id>>, rmid |-> id, buf |-> buf, ack |-> <<id, GR_ACK_RECV>>]
    ELSE IF id > rmid + 1
    THEN [deliver |-> <<>>, rmid |-> rmid, buf |-> buf \cup {id},
          ack |-> <<rmid + 1, GR_ACK_REQ>>]
    ELSE [deliver |-> <<>>, rmid |-> rmid, buf |-> buf,
          ack |-> <<id, GR_ACK_RECV>>]

\* What the receiver does with the lossless packet `id` when the last packet
\* processed in order is `rmid` and `buf` holds the ids buffered out of order:
\* the ids it processes (in this order), the new rmid, the new buffer and the
\* MESSAGE_ACK it replies.
\*   id = next_expected: process, advance, drain buffered successors, ack RECV
\*   id > next_expected: buffer, request next_expected
\*   id < next_expected: ack RECV anyway and drop
HandleLossless(id, rmid, buf) ==
    IF id = rmid + 1
    THEN [deliver |-> IdSeq(id, DrainTo(id, buf)), rmid |-> DrainTo(id, buf),
          buf |-> buf \ (id..DrainTo(id, buf)), ack |-> <<id, GR_ACK_RECV>>]
    ELSE IF id > rmid + 1
    THEN [deliver |-> <<>>, rmid |-> rmid, buf |-> buf \cup {id},
          ack |-> <<rmid + 1, GR_ACK_REQ>>]
    ELSE [deliver |-> <<>>, rmid |-> rmid, buf |-> buf,
          ack |-> <<id, GR_ACK_RECV>>]

\* The message upcalls for the processed ids `ids`, appended to `log`.
RECURSIVE Upcalls(_, _)
Upcalls(log, ids) ==
    IF ids = <<>> THEN log
    ELSE Upcalls(Append(log, [id |-> Head(ids), n |-> Payload(Head(ids))]), Tail(ids))

\* gc_send_message on a confirmed link: the packet gets the next message id,
\* enters the send window and is handed to the transport.
gc_send_message ==
    /\ link = "Confirmed"
    /\ send_message_id <= MaxMsgs
    /\ send_array' = [send_array EXCEPT ![send_message_id] = 1]
    /\ net_data' = net_data \cup {send_message_id}
    /\ send_message_id' = send_message_id + 1
    /\ UNCHANGED <<net_ack, received_message_id, recv_array, delivered, last_msg_recv, link>>

\* The transport loses a datagram.
TransportLoseData(id) ==
    /\ id \in net_data
    /\ net_data' = net_data \ {id}
    /\ UNCHANGED <<send_message_id, send_array, net_ack, received_message_id,
                   recv_array, delivered, last_msg_recv, link>>

TransportLoseAck(a) ==
    /\ a \in net_ack
    /\ net_ack' = net_ack \ {a}
    /\ UNCHANGED <<send_message_id, send_array, net_data, received_message_id,
                   recv_array, delivered, last_msg_recv, link>>

\* The receiver gets the lossless datagram `id`.  With `dup` the transport
\* keeps a copy in flight (a duplicated datagram); datagrams in flight are
\* unordered.
handle_gc_lossless_packet(id, dup) ==
    /\ id \in net_data
    /\ LET r == HandleLossless(id, received_message_id, recv_array) IN
        /\ received_message_id' = r.rmid
        /\ recv_array' = r.buf
        /\ delivered' = Upcalls(delivered, r.deliver)
        /\ last_msg_recv' = IF r.deliver = <<>> THEN last_msg_recv
                            ELSE Payload(r.deliver[Len(r.deliver)])
        /\ net_ack' = net_ack \cup {r.ack}
    /\ net_data' = IF dup THEN net_data ELSE net_data \ {id}
    /\ UNCHANGED <<send_message_id, send_array, link>>

\* A sender that retransmits whatever id is requested.
AckResendAlways(type, id, window) ==
    IF type = GR_ACK_RECV
    THEN [window |-> [window EXCEPT ![id] = 0], resend |-> {}]
    ELSE [window |-> window, resend |-> {id}]

\* The sender's reaction to MESSAGE_ACK{id, type}: GR_ACK_RECV removes the
\* packet from the send window; GR_ACK_REQ retransmits it if it is still there.
AckEffect(type, id, window) ==
    IF type = GR_ACK_RECV
    THEN [window |-> [window EXCEPT ![id] = 0], resend |-> {}]
    ELSE [window |-> window, resend |-> IF window[id] > 0 THEN {id} ELSE {}]

handle_gc_message_ack(a) ==
    /\ a \in net_ack
    /\ link = "Confirmed"
    /\ a[1] \in Ids
    /\ LET e == AckEffect(a[2], a[1], send_array) IN
        /\ send_array' = e.window
        /\ net_data' = net_data \cup e.resend
    /\ net_ack' = net_ack \ {a}
    /\ UNCHANGED <<send_message_id, received_message_id, recv_array, delivered,
                   last_msg_recv, link>>

\* A resend timer without a ceiling on the attempts.
ResendNoCeiling(n) == [resend |-> TRUE, attempts |-> n, failed |-> FALSE]

\* The resend timer's decision for a packet transmitted `n` times: transmit
\* again, or give the link up once the ceiling is reached.
Resend(n) ==
    IF n < MaxAttempts
    THEN [resend |-> TRUE, attempts |-> n + 1, failed |-> FALSE]
    ELSE [resend |-> FALSE, attempts |-> n, failed |-> TRUE]

\* The timer loop's retransmission of the unacknowledged packet `id`.
gcc_resend_packets(id) ==
    /\ link = "Confirmed"
    /\ id \in SendWindow
    /\ LET r == Resend(send_array[id]) IN
        /\ send_array' = [send_array EXCEPT ![id] = r.attempts]
        /\ net_data' = IF r.resend THEN net_data \cup {id} ELSE net_data
        /\ link' = IF r.failed THEN "Failed" ELSE link
    /\ UNCHANGED <<send_message_id, net_ack, received_message_id, recv_array,
                   delivered, last_msg_recv>>

LosslessStep ==
    \/ gc_send_message
    \/ \E id \in Ids : TransportLoseData(id)
    \/ \E a \in net_ack : TransportLoseAck(a)
    \/ \E id \in Ids, dup \in BOOLEAN : handle_gc_lossless_packet(id, dup)
    \/ \E a \in net_ack : handle_gc_message_ack(a)
    \/ \E id \in Ids : gcc_resend_packets(id)

(***************************************************************************)
(* Part 2.  The founder-signed shared state and the moderator list.        *)
(*                                                                         *)
(* The founder F holds the group secret signature key.  P and Q are peers  *)
(* of the group; each receives the founder's broadcasts over its own link  *)
(* (lossless, hence in order) and the other's sync responses.  A further   *)
(* peer, who holds only its own signature key, sends whatever packets it   *)
(* can build from what it has seen.                                        *)
(***************************************************************************)

\* Highest shared state version the founder signs.
MaxVersion == 3
\* Packets a link holds before its receiver handles one.
MaxQueue == 2

Founder == "F"
Receivers == {"P", "Q"}
\* The group public signature key, and the signature key of the peer that
\* does not hold the group secret key.
ChatId == "chat_id"
ForeignKey == "pk_X"
\* Signature keys of the peers the founder may make moderators.
ModKeys == {"pk_C"}
PrivacyStates == {"PUBLIC", "PRIVATE"}

VARIABLES
    shared_state,      \* peer -> the SHARED_STATE it holds (fields and signature)
    mod_list,          \* peer -> its moderator list (array of signature keys)
    mod_list_version,  \* peer -> shared state version its list was validated against
    ss_queue,          \* <<from, to>> -> packets in flight on the link, in order
    signed_states,     \* every shared state the founder has signed
    last_recv          \* the last SHARED_STATE handled: how its version stood to the
                       \* receiver's, whether it was accepted, whether the state was kept

svars == <<shared_state, mod_list, mod_list_version, ss_queue, signed_states, last_recv>>

SsLinks == {<<Founder, "P">>, <<Founder, "Q">>, <<"P", "Q">>}

\* sha256 of a moderator list: distinct lists have distinct hashes.
mod_list_make_hash(list) == <<"sha256", list>>

\* A detached signature: made with the secret key of `key` over `data`.
crypto_sign(key, data) == [signer |-> key, over |-> data]

\* A verification that checks who signed, not what was signed.
VerifySignerOnly(pk, sig, data) == sig.signer = pk

\* The signature verifies under `pk` over exactly `data`.
crypto_sign_verify(pk, sig, data) == sig.signer = pk /\ sig.over = data

\* A version check that lets every version pass.
VersionAny(version, current) == TRUE

\* The receiver's version check: the new version is not older than the current.
SharedStateVersionOk(version, current) == version >= current

\* A moderator list check that accepts every list.
ModListAny(list, ss) == TRUE

\* The receiver's moderator list check against the shared state it holds.
mod_list_verify(list, ss) == mod_list_make_hash(list) = ss.fields.mod_list_hash

\* The founder signs the shared state fields with the group secret key.
sign_gc_shared_state(fields) == [fields |-> fields, sig |-> crypto_sign(ChatId, fields)]

InitSharedState ==
    sign_gc_shared_state([version |-> 1, privacy |-> "PUBLIC",
                          mod_list_hash |-> mod_list_make_hash(<<>>)])

InitState ==
    /\ shared_state = [p \in {Founder} \cup Receivers |-> InitSharedState]
    /\ mod_list = [p \in {Founder} \cup Receivers |-> <<>>]
    /\ mod_list_version = [p \in {Founder} \cup Receivers |-> 1]
    /\ ss_queue = [l \in SsLinks |-> <<>>]
    /\ signed_states = {InitSharedState}
    /\ last_recv = [accepted |-> FALSE, version |-> "none", kept |-> TRUE]

SsVersion(p) == shared_state[p].fields.version

SsPacket(ss) == [type |-> "SHARED_STATE", ss |-> ss, list |-> <<>>]
ModListPacket(list) == [type |-> "MOD_LIST", ss |-> InitSharedState, list |-> list]

\* The link from -> to has room for n more packets.
HasRoom(from, to, n) == Len(ss_queue[<<from, to>>]) + n <= MaxQueue

\* The founder sends `packets`, in this order, to every peer.
broadcast(packets) ==
    [l \in SsLinks |-> IF l[1] = Founder THEN ss_queue[l] \o packets ELSE ss_queue[l]]

\* The founder changes the privacy state: new version, new signature, one
\* SHARED_STATE to every peer.  Setting the state the group is already in
\* takes no action.
gc_founder_set_privacy_state(new_privacy_state) ==
    /\ SsVersion(Founder) < MaxVersion
    /\ new_privacy_state # shared_state[Founder].fields.privacy
    /\ \A p \in Receivers : HasRoom(Founder, p, 1)
    /\ LET ss == sign_gc_shared_state(
                    [shared_state[Founder].fields EXCEPT
                        !.version = @ + 1, !.privacy = new_privacy_state]) IN
        /\ shared_state' = [shared_state EXCEPT ![Founder] = ss]
        /\ signed_states' = signed_states \cup {ss}
        /\ mod_list_version' = [mod_list_version EXCEPT ![Founder] = ss.fields.version]
        /\ ss_queue' = broadcast(<<SsPacket(ss)>>)
    /\ UNCHANGED <<mod_list, last_recv>>

\* The moderator list with `key` appended or removed.
mod_list_add_entry(list, key) == Append(list, key)
mod_list_remove_entry(list, key) == SelectSeq(list, LAMBDA k : k # key)

\* The founder changes the moderator list: he updates the mod_list_hash,
\* increments the version, signs, broadcasts the new shared state and then
\* the new moderator list.
founder_gc_set_moderator(key, add_mod) ==
    /\ SsVersion(Founder) < MaxVersion
    /\ add_mod <=> (\A i \in 1..Len(mod_list[Founder]) : mod_list[Founder][i] # key)
    /\ \A p \in Receivers : HasRoom(Founder, p, 2)
    /\ LET list == IF add_mod THEN mod_list_add_entry(mod_list[Founder], key)
                   ELSE mod_list_remove_entry(mod_list[Founder], key)
           ss == sign_gc_shared_state(
                    [shared_state[Founder].fields EXCEPT
                        !.version = @ + 1,
                        !.mod_list_hash = mod_list_make_hash(list)]) IN
        /\ mod_list' = [mod_list EXCEPT ![Founder] = list]
        /\ shared_state' = [shared_state EXCEPT ![Founder] = ss]
        /\ signed_states' = signed_states \cup {ss}
        /\ mod_list_version' = [mod_list_version EXCEPT ![Founder] = ss.fields.version]
        /\ ss_queue' = broadcast(<<SsPacket(ss), ModListPacket(list)>>)
    /\ UNCHANGED last_recv

\* Peer q answers a sync request of peer p that has the STATE flag set: one
\* SHARED_STATE, then one MOD_LIST, as q holds them now.  p has one request
\* outstanding at a time.
handle_gc_sync_request(q, p) ==
    /\ <<q, p>> \in SsLinks
    /\ q # Founder
    /\ ss_queue[<<q, p>>] = <<>>
    /\ ss_queue' = [ss_queue EXCEPT ![<<q, p>>] =
                        @ \o <<SsPacket(shared_state[q]), ModListPacket(mod_list[q])>>]
    /\ UNCHANGED <<shared_state, mod_list, mod_list_version, signed_states, last_recv>>

\* How a received version stands to the version the receiver holds.
Compare(version, current) ==
    IF version < current THEN "older" ELSE IF version = current THEN "same" ELSE "newer"

\* Peer p handles a SHARED_STATE: the signature must verify under the Chat ID
\* over the fields received and the version must pass the version check;
\* then the packet replaces the shared state p holds.  Otherwise it is dropped.
handle_gc_shared_state(p, pkt) ==
    LET cur == shared_state[p]
        ok == /\ crypto_sign_verify(ChatId, pkt.sig, pkt.fields)
              /\ SharedStateVersionOk(pkt.fields.version, cur.fields.version)
    IN  /\ shared_state' = [shared_state EXCEPT ![p] = IF ok THEN pkt ELSE cur]
        /\ last_recv' = [accepted |-> ok,
                         version |-> Compare(pkt.fields.version, cur.fields.version),
                         kept |-> shared_state'[p] = cur]
        /\ UNCHANGED <<mod_list, mod_list_version, signed_states>>

\* Peer p handles a MOD_LIST: the hash of the list must equal the
\* mod_list_hash of the shared state p holds.
handle_gc_mod_list(p, list) ==
    /\ IF mod_list_verify(list, shared_state[p])
       THEN /\ mod_list' = [mod_list EXCEPT ![p] = list]
            /\ mod_list_version' = [mod_list_version EXCEPT ![p] = SsVersion(p)]
       ELSE UNCHANGED <<mod_list, mod_list_version>>
    /\ UNCHANGED <<shared_state, signed_states, last_recv>>

\* Peer p takes the next packet off the link from -> p and handles it.
handle_gc_lossless_helper(from, p) ==
    /\ <<from, p>> \in SsLinks
    /\ ss_queue[<<from, p>>] # <<>>
    /\ ss_queue' = [ss_queue EXCEPT ![<<from, p>>] = Tail(@)]
    /\ LET m == Head(ss_queue[<<from, p>>]) IN
        IF m.type = "SHARED_STATE"
        THEN handle_gc_shared_state(p, m.ss)
        ELSE handle_gc_mod_list(p, m.list)

\* The shared states a peer without the group secret key can send: a replay
\* of a state the founder signed, the latest state with a field altered under
\* the founder's signature, and the latest state, altered or not, signed with
\* the sender's own key.
OtherPrivacy(x) == IF x = "PUBLIC" THEN "PRIVATE" ELSE "PUBLIC"
Altered(f) ==
    { [f EXCEPT !.version = @ + 1],
      [f EXCEPT !.privacy = OtherPrivacy(@)],
      [f EXCEPT !.mod_list_hash = mod_list_make_hash(<<ForeignKey>>)] }
ForeignStates ==
    signed_states
    \cup {[fields |-> f, sig |-> shared_state[Founder].sig] :
            f \in Altered(shared_state[Founder].fields)}
    \cup {[fields |-> f, sig |-> crypto_sign(ForeignKey, f)] :
            f \in Altered(shared_state[Founder].fields) \cup {shared_state[Founder].fields}}
ForeignModLists == {<<>>} \cup {<<k>> : k \in ModKeys \cup {ForeignKey}}

\* A packet of the peer without the group secret key arrives at p.
ForeignSharedState(p, pkt) ==
    /\ handle_gc_shared_state(p, pkt)
    /\ UNCHANGED ss_queue

ForeignModList(p, list) ==
    /\ handle_gc_mod_list(p, list)
    /\ UNCHANGED ss_queue

StateStep ==
    \/ \E x \in PrivacyStates : gc_founder_set_privacy_state(x)
    \/ \E k \in ModKeys, add \in BOOLEAN : founder_gc_set_moderator(k, add)
    \/ \E q, p \in Receivers : handle_gc_sync_request(q, p)
    \/ \E from \in {Founder} \cup Receivers, p \in Receivers : handle_gc_lossless_helper(from, p)
    \/ \E p \in Receivers : \E pkt \in ForeignStates : ForeignSharedState(p, pkt)
    \/ \E p \in Receivers : \E list \in ForeignModLists : ForeignModList(p, list)

\* ---------------------------------------------------------------------------
\* Part 3: the sanctions list.  A founder F, a moderator C and a peer P each
\* hold a moderator list, a sanctions list and its credentials.  F and C set
\* peers observer; F demotes and promotes C.  Every packet travels on the
\* lossless link of its sender and receiver, in order.
\* ---------------------------------------------------------------------------

MaxCredsVersion == 2
MaxLink == 2

FounderKey == "pk_F"
ModeratorKey == "pk_C"
SPeers == {"F", "C", "P"}
Targets == {"X", "Y"}
SLinks == {<<"F", "C">>, <<"F", "P">>, <<"C", "F">>, <<"C", "P">>}

VARIABLES
    moderators,        \* peer -> the keys in its moderator list
    sanctions,         \* peer -> its sanctions list entries
    sanctions_creds,   \* peer -> its sanctions list credentials
    slink              \* link -> packets sent and not yet handled, in order

mvars == <<moderators, sanctions, sanctions_creds, slink>>

get_sig_pk(p) == IF p = "F" THEN FounderKey ELSE IF p = "C" THEN ModeratorKey ELSE "pk_P"

InitSanctions ==
    /\ moderators = [p \in SPeers |-> {ModeratorKey}]
    /\ sanctions = [p \in SPeers |-> {}]
    /\ sanctions_creds = [p \in SPeers |-> [version |-> 0, modifier |-> FounderKey]]
    /\ slink = [l \in SLinks |-> <<>>]

\* The key belongs to the founder or is present in the moderator list of p.
mod_list_verify_sig_pk(p, key) == key = FounderKey \/ key \in moderators[p]

\* An entry: the sanctioned peer and the key of the peer that signed it.
sanctions_list_make_entry(target, setter) == [target |-> target, setter |-> setter]

\* The credentials after a modification by `setter`.
sanctions_list_make_creds(creds, setter) ==
    [version |-> creds.version + 1, modifier |-> setter]

\* The new credentials are not older than those of p and were made by a
\* moderator or the founder.
sanctions_creds_validate(p, creds) ==
    /\ creds.version >= sanctions_creds[p].version
    /\ mod_list_verify_sig_pk(p, creds.modifier)

\* Every entry of the list is signed by the founder or a moderator of p.
sanctions_list_check_integrity(p, list, creds) ==
    /\ sanctions_creds_validate(p, creds)
    /\ \A e \in list : mod_list_verify_sig_pk(p, e.setter)

\* The entries of `list` made by `key`, signed again with the founder key.
sanctions_list_replace_sig(list, key) ==
    {IF e.setter = key THEN sanctions_list_make_entry(e.target, FounderKey) ELSE e : e \in list}

SLinkHasRoom(from, n) ==
    \A l \in SLinks : l[1] = from => Len(slink[l]) + n <= MaxLink

send_gc_broadcast(from, packets) ==
    [l \in SLinks |-> IF l[1] = from THEN slink[l] \o packets ELSE slink[l]]

SetObserverPacket(entry, creds) ==
    [type |-> "SET_OBSERVER", entry |-> entry, list |-> {}, creds |-> creds, mods |-> {}]
SanctionsListPacket(list, creds) ==
    [type |-> "SANCTIONS_LIST", entry |-> sanctions_list_make_entry("X", FounderKey),
     list |-> list, creds |-> creds, mods |-> {}]
SModListPacket(mods) ==
    [type |-> "MOD_LIST", entry |-> sanctions_list_make_entry("X", FounderKey),
     list |-> {}, creds |-> [version |-> 0, modifier |-> FounderKey], mods |-> mods]

\* The founder or a moderator sets `target` observer: he adds an entry signed
\* with his key, makes new credentials and broadcasts the entry with them.
mod_gc_set_observer(m, target) ==
    /\ m \in {"F", "C"}
    /\ mod_list_verify_sig_pk(m, get_sig_pk(m))
    /\ \A e \in sanctions[m] : e.target # target
    /\ sanctions_creds[m].version < MaxCredsVersion
    /\ SLinkHasRoom(m, 1)
    /\ LET entry == sanctions_list_make_entry(target, get_sig_pk(m))
           creds == sanctions_list_make_creds(sanctions_creds[m], get_sig_pk(m)) IN
        /\ sanctions' = [sanctions EXCEPT ![m] = @ \cup {entry}]
        /\ sanctions_creds' = [sanctions_creds EXCEPT ![m] = creds]
        /\ slink' = send_gc_broadcast(m, <<SetObserverPacket(entry, creds)>>)
    /\ UNCHANGED moderators

\* The founder demotes the moderator: he first re-signs each entry made by
\* that moderator with the founder key and re-broadcasts the sanctions list,
\* then changes the moderator list and broadcasts it.
founder_gc_demote_moderator ==
    /\ ModeratorKey \in moderators["F"]
    /\ SLinkHasRoom("F", 2)
    /\ LET list == sanctions_list_replace_sig(sanctions["F"], ModeratorKey)
           creds == IF list = sanctions["F"] THEN sanctions_creds["F"]
                    ELSE sanctions_list_make_creds(sanctions_creds["F"], FounderKey)
           mods == moderators["F"] \ {ModeratorKey} IN
        /\ creds.version <= MaxCredsVersion
        /\ sanctions' = [sanctions EXCEPT !["F"] = list]
        /\ sanctions_creds' = [sanctions_creds EXCEPT !["F"] = creds]
        /\ moderators' = [moderators EXCEPT !["F"] = mods]
        /\ slink' = send_gc_broadcast("F", <<SanctionsListPacket(list, creds),
                                            SModListPacket(mods)>>)

\* The founder promotes C to moderator and broadcasts the moderator list.
founder_gc_promote_moderator ==
    /\ ModeratorKey \notin moderators["F"]
    /\ SLinkHasRoom("F", 1)
    /\ moderators' = [moderators EXCEPT !["F"] = @ \cup {ModeratorKey}]
    /\ slink' = send_gc_broadcast("F", <<SModListPacket(moderators["F"] \cup {ModeratorKey})>>)
    /\ UNCHANGED <<sanctions, sanctions_creds>>

\* The founder answers a sync request of P: the moderator list, then the
\* sanctions list.
handle_gc_sync_request_state ==
    /\ slink[<<"F", "P">>] = <<>>
    /\ slink' = [slink EXCEPT ![<<"F", "P">>] =
                    <<SModListPacket(moderators["F"]),
                      SanctionsListPacket(sanctions["F"], sanctions_creds["F"])>>]
    /\ UNCHANGED <<moderators, sanctions, sanctions_creds>>

\* Peer p handles a SET_OBSERVER: the credentials must not be older than its
\* own, the change must come from a moderator or the founder, and the entry
\* must be signed by its creator.
handle_gc_set_observer(p, m) ==
    /\ IF /\ sanctions_creds_validate(p, m.creds)
          /\ mod_list_verify_sig_pk(p, m.entry.setter)
          /\ \A e \in sanctions[p] : e.target # m.entry.target
       THEN /\ sanctions' = [sanctions EXCEPT ![p] = @ \cup {m.entry}]
            /\ sanctions_creds' = [sanctions_creds EXCEPT ![p] = m.creds]
       ELSE UNCHANGED <<sanctions, sanctions_creds>>
    /\ UNCHANGED moderators

\* Peer p handles a SANCTIONS_LIST: the list replaces its own if it
\* validates against the moderator list of p.
handle_gc_sanctions_list(p, m) ==
    /\ IF sanctions_list_check_integrity(p, m.list, m.creds)
       THEN /\ sanctions' = [sanctions EXCEPT ![p] = m.list]
            /\ sanctions_creds' = [sanctions_creds EXCEPT ![p] = m.creds]
       ELSE UNCHANGED <<sanctions, sanctions_creds>>
    /\ UNCHANGED moderators

\* Peer p handles the founder's MOD_LIST: the list replaces its own.
handle_gc_mod_list_update(p, m) ==
    /\ moderators' = [moderators EXCEPT ![p] = m.mods]
    /\ UNCHANGED <<sanctions, sanctions_creds>>

\* Peer p takes the next packet off the link from -> p and handles it.
handle_gc_moderation_packet(from, p) ==
    /\ <<from, p>> \in SLinks
    /\ slink[<<from, p>>] # <<>>
    /\ LET m == Head(slink[<<from, p>>]) IN
        /\ slink' = [slink EXCEPT ![<<from, p>>] = Tail(@)]
        /\ IF m.type = "SET_OBSERVER" THEN handle_gc_set_observer(p, m)
           ELSE IF m.type = "SANCTIONS_LIST" THEN handle_gc_sanctions_list(p, m)
           ELSE handle_gc_mod_list_update(p, m)

SanctionsStep ==
    \/ \E m \in {"F", "C"}, t \in Targets : mod_gc_set_observer(m, t)
    \/ founder_gc_demote_moderator
    \/ founder_gc_promote_moderator
    \/ handle_gc_sync_request_state
    \/ \E from, p \in SPeers : handle_gc_moderation_packet(from, p)

\* ---------------------------------------------------------------------------
\* Part 4: roles and permissions.  The founder A and the peers B and C each
\* hold a peer list with the role of every peer.  Moderation calls change the
\* caller's own view and broadcast SET_MOD, SET_OBSERVER or KICK_PEER; the
\* receivers check the sender's role in their own view.
\* ---------------------------------------------------------------------------

RPeers == {"A", "B", "C"}
Roles == {"FOUNDER", "MODERATOR", "USER", "OBSERVER"}
RLinks == {l \in RPeers \X RPeers : l[1] # l[2]}
MessageArgs == {"ok", "too_long", "empty", "bad_type"}

VARIABLES
    role,              \* peer -> peer -> the role the first holds for the second
    peers,             \* peer -> its peer list
    ignore,            \* peer -> the peers it ignores
    rlink,             \* link -> packets sent and not yet handled, in order
    last_op,           \* the last call of the API: what it answered and did
    r_chat,            \* peer -> its group instance: connection state, permanent keys
    r_exit             \* the peer_exit upcalls the last step triggered

rvars == <<role, peers, ignore, rlink, last_op, r_chat, r_exit>>

NoOp == [op |-> "none", result |-> "OK", sent |-> FALSE, changed |-> FALSE]

InitRoles ==
    /\ role = [p \in RPeers |-> [q \in RPeers |-> IF q = "A" THEN "FOUNDER" ELSE "USER"]]
    /\ peers = [p \in RPeers |-> RPeers]
    /\ ignore = [p \in RPeers |-> {}]
    /\ rlink = [l \in RLinks |-> <<>>]
    /\ last_op = NoOp
    /\ r_chat = [p \in RPeers |-> [state |-> "connected", enc_pk |-> <<"enc_pk", p>>,
                                   sig_pk |-> <<"sig_pk", p>>]]
    /\ r_exit = {}

\* Roles are hierarchical: Founder > Moderator > User > Observer.
Level(r) ==
    CASE r = "FOUNDER" -> 3 [] r = "MODERATOR" -> 2 [] r = "USER" -> 1 [] OTHER -> 0

gc_get_self_role(p) == role[p][p]

\* The calls that send are taken one at a time: a call that sends waits until
\* the packets of the previous one have been handled.  What a call answers
\* depends on the caller's own view only.
RLinkHasRoom == \A l \in RLinks : rlink[l] = <<>>

\* `packets` appended to the link from `from` to every peer of its peer list.
send_gc_broadcast_message(from, packets) ==
    [l \in RLinks |-> IF l[1] = from /\ l[2] \in peers[from]
                      THEN rlink[l] \o packets ELSE rlink[l]]

RolePacket(type, target, flag) == [type |-> type, target |-> target, flag |-> flag]

RoleAssignableAny(new_role) == TRUE

\* role must be one of GR_MODERATOR, GR_USER, GR_OBSERVER.
RoleAssignable(new_role) == new_role \in {"MODERATOR", "USER", "OBSERVER"}

\* What gc_set_peer_role answers.
SetRoleResult(caller, target, new_role) ==
    LET self_role == gc_get_self_role(caller)
        current_role == role[caller][target]
    IN  IF target = caller THEN "SELF"
        ELSE IF target \notin peers[caller] THEN "PEER_NOT_FOUND"
        ELSE IF current_role = "FOUNDER" \/ Level(self_role) <= Level("USER")
            THEN "PERMISSIONS"
        ELSE IF self_role # "FOUNDER"
                /\ (new_role = "MODERATOR" \/ current_role = "MODERATOR")
            THEN "PERMISSIONS"
        ELSE IF ~RoleAssignable(new_role) \/ new_role = current_role THEN "ASSIGNMENT"
        ELSE "OK"

\* The packets of a role change: the previous role is removed first, then
\* the new role is assigned.
SetRolePackets(target, current_role, new_role) ==
    (IF current_role = "MODERATOR" THEN <<RolePacket("SET_MOD", target, FALSE)>>
     ELSE IF current_role = "OBSERVER" THEN <<RolePacket("SET_OBSERVER", target, FALSE)>>
     ELSE <<>>)
    \o
    (IF new_role = "MODERATOR" THEN <<RolePacket("SET_MOD", target, TRUE)>>
     ELSE IF new_role = "OBSERVER" THEN <<RolePacket("SET_OBSERVER", target, TRUE)>>
     ELSE <<>>)

gc_set_peer_role(caller, target, new_role) ==
    LET result == SetRoleResult(caller, target, new_role)
        current_role == role[caller][target]
        packets == SetRolePackets(target, current_role, new_role)
    IN  /\ result = "OK" => RLinkHasRoom
        /\ IF result = "OK"
           THEN /\ role' = [role EXCEPT ![caller][target] = new_role]
                /\ rlink' = send_gc_broadcast_message(caller, packets)
           ELSE UNCHANGED <<role, rlink>>
        /\ last_op' = [op |-> "set_role", result |-> result,
                       sent |-> rlink' # rlink, changed |-> role' # role]
        /\ r_exit' = {}
        /\ UNCHANGED <<peers, ignore, r_chat>>

\* A kick that does not look whether the target is the caller.
KickResultNoSelf(caller, target) ==
    LET self_role == gc_get_self_role(caller)
        current_role == role[caller][target]
    IN  IF target \notin peers[caller] THEN "PEER_NOT_FOUND"
        ELSE IF current_role = "FOUNDER" \/ Level(self_role) <= Level("USER")
            THEN "PERMISSIONS"
        ELSE IF self_role # "FOUNDER" /\ current_role = "MODERATOR" THEN "PERMISSIONS"
        ELSE "OK"

\* What gc_kick_peer answers.
KickResult(caller, target) ==
    LET self_role == gc_get_self_role(caller)
        current_role == role[caller][target]
    IN  IF target = caller THEN "SELF"
        ELSE IF target \notin peers[caller] THEN "PEER_NOT_FOUND"
        ELSE IF current_role = "FOUNDER" \/ Level(self_role) <= Level("USER")
            THEN "PERMISSIONS"
        ELSE IF self_role # "FOUNDER" /\ current_role = "MODERATOR" THEN "PERMISSIONS"
        ELSE "OK"

\* A kick that deletes the group instance of the kicked peer.
SelfKickedDelete(chat) == [state |-> "deleted", enc_pk |-> <<>>, sig_pk |-> <<>>]

\* The group instance of a peer that has been kicked: it is left in a
\* disconnected state; its keys are not lost.
SelfKicked(chat) == [chat EXCEPT !.state = "disconnected"]

PeerExit(at, peer, type) == [at |-> at, peer |-> peer, type |-> type]

\* The peer leaves the peer list of p; his role is set to user.
gc_peer_delete(p, target) ==
    /\ peers' = [peers EXCEPT ![p] = @ \ {target}]
    /\ role' = [role EXCEPT ![p][target] = "USER"]

gc_kick_peer(caller, target) ==
    LET result == KickResult(caller, target) IN
        /\ result = "OK" => RLinkHasRoom
        /\ IF result = "OK"
           THEN /\ gc_peer_delete(caller, target)
                /\ rlink' = send_gc_broadcast_message(
                                caller, <<RolePacket("KICK_PEER", target, TRUE)>>)
           ELSE UNCHANGED <<role, peers, rlink>>
        /\ last_op' = [op |-> "kick", result |-> result,
                       sent |-> rlink' # rlink,
                       changed |-> role' # role \/ peers' # peers]
        /\ r_exit' = {}
        /\ UNCHANGED <<ignore, r_chat>>

SenderMaySpeakAny(self_role) == TRUE

\* The sender does not have the observer role.
SenderMaySpeak(self_role) == self_role # "OBSERVER"

\* What gc_send_message and gc_send_custom_packet answer (a custom packet
\* has no type).
SendResult(caller, arg) ==
    IF arg = "too_long" THEN "TOO_LONG"
    ELSE IF arg = "empty" THEN "EMPTY"
    ELSE IF arg = "bad_type" THEN "BAD_TYPE"
    ELSE IF ~SenderMaySpeak(gc_get_self_role(caller)) THEN "PERMISSIONS"
    ELSE "OK"

\* What gc_send_private_message answers.
SendPrivateResult(caller, target, arg) ==
    IF arg = "too_long" THEN "TOO_LONG"
    ELSE IF arg = "empty" THEN "EMPTY"
    ELSE IF target = caller \/ target \notin peers[caller] THEN "PEER_NOT_FOUND"
    ELSE IF arg = "bad_type" THEN "BAD_TYPE"
    ELSE IF ~SenderMaySpeak(gc_get_self_role(caller)) THEN "PERMISSIONS"
    ELSE "OK"

SendOp(op, result) ==
    [op |-> op, result |-> result, sent |-> rlink' # rlink, changed |-> FALSE]

gc_send_group_message(caller, arg) ==
    LET result == SendResult(caller, arg) IN
        /\ result = "OK" => RLinkHasRoom
        /\ rlink' = IF result = "OK"
                    THEN send_gc_broadcast_message(
                            caller, <<RolePacket("PLAIN_MESSAGE", caller, TRUE)>>)
                    ELSE rlink
        /\ last_op' = SendOp("send_message", result)
        /\ r_exit' = {}
        /\ UNCHANGED <<role, peers, ignore, r_chat>>

gc_send_private_message(caller, target, arg) ==
    LET result == SendPrivateResult(caller, target, arg) IN
        /\ result = "OK" => RLinkHasRoom
        /\ rlink' = IF result = "OK"
                    THEN [rlink EXCEPT ![<<caller, target>>] =
                            Append(@, RolePacket("PRIVATE_MESSAGE", target, TRUE))]
                    ELSE rlink
        /\ last_op' = SendOp("send_private_message", result)
        /\ r_exit' = {}
        /\ UNCHANGED <<role, peers, ignore, r_chat>>

gc_send_custom_packet(caller, arg) ==
    LET result == SendResult(caller, arg) IN
        /\ arg # "bad_type"
        /\ result = "OK" => RLinkHasRoom
        /\ rlink' = IF result = "OK"
                    THEN send_gc_broadcast_message(
                            caller, <<RolePacket("CUSTOM_PACKET", caller, TRUE)>>)
                    ELSE rlink
        /\ last_op' = SendOp("send_custom_packet", result)
        /\ r_exit' = {}
        /\ UNCHANGED <<role, peers, ignore, r_chat>>

\* What gc_toggle_ignore answers: it does not look at the caller's role.
ToggleIgnoreResult(caller, target) ==
    IF target = caller THEN "SELF"
    ELSE IF target \notin peers[caller] THEN "PEER_NOT_FOUND"
    ELSE "OK"

gc_toggle_ignore(caller, target, flag) ==
    LET result == ToggleIgnoreResult(caller, target) IN
        /\ ignore' = IF result # "OK" THEN ignore
                     ELSE [ignore EXCEPT ![caller] =
                              IF flag THEN @ \cup {target} ELSE @ \ {target}]
        /\ last_op' = [op |-> "toggle_ignore", result |-> result,
                       sent |-> FALSE, changed |-> ignore' # ignore]
        /\ r_exit' = {}
        /\ UNCHANGED <<role, peers, rlink, r_chat>>

SetModSenderAny(r, from) == TRUE

\* SET_MOD is sent by the group founder.
SetModSenderOk(r, from) == role[r][from] = "FOUNDER"

\* What peer r does with a packet of peer `from`.
HandleResult(r, from, m) ==
    IF from \notin peers[r] THEN "DROPPED"
    ELSE IF m.type = "SET_MOD"
        THEN IF SetModSenderOk(r, from) /\ role[r][m.target] # "FOUNDER"
             THEN "APPLIED" ELSE "DROPPED"
    ELSE IF m.type = "SET_OBSERVER"
        THEN IF /\ Level(role[r][from]) >= Level("MODERATOR")
                /\ Level(role[r][m.target]) < Level("MODERATOR")
             THEN "APPLIED" ELSE "DROPPED"
    ELSE IF m.type = "KICK_PEER"
        THEN IF /\ Level(role[r][from]) >= Level("MODERATOR")
                /\ Level(role[r][from]) > Level(role[r][m.target])
                /\ m.target \in peers[r]
             THEN "APPLIED" ELSE "DROPPED"
    ELSE IF from \in ignore[r] \/ role[r][from] = "OBSERVER" THEN "DROPPED"
    ELSE "UPCALL"

\* Peer r handles packet m of peer `from`.
handle_gc_broadcast(r, from, m) ==
    LET result == HandleResult(r, from, m) IN
        /\ IF result = "APPLIED" /\ m.type = "SET_MOD"
           THEN /\ role' = [role EXCEPT ![r][m.target] =
                               IF m.flag THEN "MODERATOR" ELSE "USER"]
                /\ UNCHANGED peers
           ELSE IF result = "APPLIED" /\ m.type = "SET_OBSERVER"
           THEN /\ role' = [role EXCEPT ![r][m.target] =
                               IF m.flag THEN "OBSERVER" ELSE "USER"]
                /\ UNCHANGED peers
           ELSE IF result = "APPLIED" /\ m.target = r
           THEN /\ peers' = [peers EXCEPT ![r] = {r}]
                /\ role' = [role EXCEPT ![r][r] = "USER"]
           ELSE IF result = "APPLIED"
           THEN gc_peer_delete(r, m.target)
           ELSE UNCHANGED <<role, peers>>
        /\ r_chat' = IF result = "APPLIED" /\ m.type = "KICK_PEER" /\ m.target = r
                     THEN [r_chat EXCEPT ![r] = SelfKicked(@)] ELSE r_chat
        /\ r_exit' = IF result = "APPLIED" /\ m.type = "KICK_PEER"
                     THEN IF m.target = r
                          THEN {PeerExit(r, q, "SELF_DISCONNECTED") : q \in peers[r] \ {r}}
                          ELSE {PeerExit(r, m.target, "KICK")}
                     ELSE {}
        /\ UNCHANGED <<ignore, last_op>>

\* Peer r takes the next packet off the link from -> r and handles it.
handle_gc_role_packet(from, r) ==
    /\ <<from, r>> \in RLinks
    /\ rlink[<<from, r>>] # <<>>
    /\ rlink' = [rlink EXCEPT ![<<from, r>>] = Tail(@)]
    /\ handle_gc_broadcast(r, from, Head(rlink[<<from, r>>]))

\* A peer other than the founder sends a SET_MOD of its own making, whatever
\* its role; r handles it.
ForgedPackets ==
    {RolePacket("SET_MOD", target, flag) : target \in RPeers, flag \in BOOLEAN}

ForgedBroadcast(from, r, m) ==
    /\ <<from, r>> \in RLinks
    /\ from # "A"
    /\ rlink[<<from, r>>] = <<>>
    /\ handle_gc_broadcast(r, from, m)
    /\ UNCHANGED rlink

RolesStep ==
    \/ \E c, t \in RPeers, r \in Roles : gc_set_peer_role(c, t, r)
    \/ \E c, t \in RPeers : gc_kick_peer(c, t)
    \/ \E c \in RPeers, f \in BOOLEAN : gc_toggle_ignore(c, c, f)
    \/ \E from, r \in RPeers : handle_gc_role_packet(from, r)
    \/ \E from, r \in RPeers : \E m \in ForgedPackets : ForgedBroadcast(from, r, m)

SpeakStep ==
    \/ \E t \in RPeers, r \in Roles : gc_set_peer_role("A", t, r)
    \/ \E c \in RPeers, a \in MessageArgs : gc_send_group_message(c, a)
    \/ \E c, t \in RPeers, a \in MessageArgs : gc_send_private_message(c, t, a)
    \/ \E c \in RPeers, a \in MessageArgs : gc_send_custom_packet(c, a)
    \/ \E t \in RPeers, f \in BOOLEAN : gc_toggle_ignore("C", t, f)
    \/ \E from, r \in RPeers : handle_gc_role_packet(from, r)

\* ---------------------------------------------------------------------------
\* Part 5: the founder's controls and the topic.  A founder F, a moderator M,
\* a user U and an observer O each hold a copy of the shared state and of the
\* topic.  Every peer may call every operation; SHARED_STATE and TOPIC travel
\* on the lossless link of their sender and receiver, in order.
\* ---------------------------------------------------------------------------

\* Highest shared state version the founder reaches, and highest topic version.
MaxStateVersion == 2
MaxTopicVersion == 1

GPeers == {"F", "M", "U", "O"}
GRole == [p \in GPeers |->
            CASE p = "F" -> "FOUNDER" [] p = "M" -> "MODERATOR"
              [] p = "U" -> "USER" [] OTHER -> "OBSERVER"]
GLinks == {l \in GPeers \X GPeers : l[1] # l[2]}

\* Arguments of the calls: a value, or a value the call must refuse.
Passwords == {"", "pw"}
PasswordArgs == Passwords \cup {"too_long"}
PeerLimits == {"ten", "twenty"}
TopicLocks == {"TL_ENABLED", "TL_DISABLED"}
TopicLockArgs == TopicLocks \cup {"invalid"}
\* The topic is unset when the group is created.
Topics == {"topic"}
TopicArgs == Topics \cup {"too_long"}

VARIABLES
    g_state,    \* peer -> the shared state it holds (fields and signature)
    g_topic,    \* peer -> the topic_info it holds (topic, version, setter, signature)
    glink,      \* <<from, to>> -> packets in flight on the link, in order
    g_events,   \* the events the last handled packet triggered at its receiver
    g_handled,  \* the last handled packet: a topic, or a shared state whose
                \* version is newer than, the same as or older than the held one
    g_call      \* the last call: operation, result, whether it sent a packet and
                \* whether it changed the caller's shared state or topic

gvars == <<g_state, g_topic, glink, g_events, g_handled, g_call>>

\* The signature key of a peer.
GSigKey(p) == <<"sig_pk", p>>

\* topic_info signed by its setter.
sign_gc_topic(version, topic, setter) ==
    [version |-> version, topic |-> topic, setter |-> setter,
     sig |-> crypto_sign(GSigKey(setter), <<version, topic>>)]

\* The shared state signed with the group secret key.
sign_gc_state(fields) == [fields |-> fields, sig |-> crypto_sign(ChatId, fields)]

InitFounder ==
    /\ g_state = [p \in GPeers |->
                    sign_gc_state([version |-> 1, privacy |-> "PUBLIC", password |-> "",
                                   maxpeers |-> "ten", topic_lock |-> "TL_ENABLED"])]
    /\ g_topic = [p \in GPeers |-> sign_gc_topic(0, "", "F")]
    /\ glink = [l \in GLinks |-> <<>>]
    /\ g_events = {}
    /\ g_handled = "none"
    /\ g_call = [op |-> "none", result |-> "OK", sent |-> FALSE, changed |-> FALSE]

\* A call is made when the packets of the previous one have been handled.
GLinkIdle == \A l \in GLinks : glink[l] = <<>>

GStatePacket(ss) == [type |-> "SHARED_STATE", ss |-> ss]
GTopicPacket(info) == [type |-> "TOPIC", info |-> info]

\* A send that reaches the moderator only.
send_gc_lossless_packet_one_peer(from, pkt) ==
    [l \in GLinks |-> IF l = <<from, "M">> THEN Append(glink[l], pkt) ELSE glink[l]]

\* One copy of the packet on the link to every other peer.
send_gc_lossless_packet_all_peers(from, pkt) ==
    [l \in GLinks |-> IF l[1] = from THEN Append(glink[l], pkt) ELSE glink[l]]

GCall(op, result) ==
    [op |-> op, result |-> result, sent |-> glink' # glink,
     changed |-> g_state' # g_state \/ g_topic' # g_topic]

\* A permission check that lets every caller pass.
SelfIsFounderAny(caller) == TRUE

\* The caller holds the founder role.
self_gc_is_founder(caller) == GRole[caller] = "FOUNDER"

\* The founder makes a new shared state of `fields`: version + 1, signed,
\* one SHARED_STATE to every peer.
founder_update_shared_state(caller, fields) ==
    LET ss == sign_gc_state([fields EXCEPT !.version = g_state[caller].fields.version + 1]) IN
        /\ g_state[caller].fields.version < MaxStateVersion
        /\ g_state' = [g_state EXCEPT ![caller] = ss]
        /\ glink' = send_gc_lossless_packet_all_peers(caller, GStatePacket(ss))

\* A call of the founder's controls by `caller`: refused with `result`, or the
\* shared state is replaced by one with `fields`.
founder_call(caller, op, result, fields) ==
    /\ GLinkIdle
    /\ IF result = "OK"
       THEN founder_update_shared_state(caller, fields)
       ELSE UNCHANGED <<g_state, glink>>
    /\ UNCHANGED <<g_topic, g_events, g_handled>>
    /\ g_call' = GCall(op, result)

SetPasswordResult(caller, password) ==
    IF ~self_gc_is_founder(caller) THEN "PERMISSIONS"
    ELSE IF password = "too_long" THEN "TOO_LONG"
    ELSE "OK"

tox_group_founder_set_password(caller, password) ==
    founder_call(caller, "set_password", SetPasswordResult(caller, password),
                 [g_state[caller].fields EXCEPT !.password = password])

SetTopicLockResult(caller, topic_lock) ==
    IF topic_lock \notin TopicLocks THEN "INVALID"
    ELSE IF ~self_gc_is_founder(caller) THEN "PERMISSIONS"
    ELSE "OK"

tox_group_founder_set_topic_lock(caller, topic_lock) ==
    founder_call(caller, "set_topic_lock", SetTopicLockResult(caller, topic_lock),
                 [g_state[caller].fields EXCEPT !.topic_lock = topic_lock])

SetPeerLimitResult(caller, max_peers) ==
    IF ~self_gc_is_founder(caller) THEN "PERMISSIONS" ELSE "OK"

tox_group_founder_set_peer_limit(caller, max_peers) ==
    founder_call(caller, "set_peer_limit", SetPeerLimitResult(caller, max_peers),
                 [g_state[caller].fields EXCEPT !.maxpeers = max_peers])

SetPrivacyStateResult(caller, privacy_state) ==
    IF ~self_gc_is_founder(caller) THEN "PERMISSIONS" ELSE "OK"

\* Setting the privacy state the group is already in succeeds and takes no
\* action.
tox_group_founder_set_privacy_state(caller, privacy_state) ==
    LET result == SetPrivacyStateResult(caller, privacy_state) IN
        IF result = "OK" /\ privacy_state = g_state[caller].fields.privacy
        THEN /\ GLinkIdle
             /\ UNCHANGED <<g_state, g_topic, glink, g_events, g_handled>>
             /\ g_call' = GCall("set_privacy_state", "OK")
        ELSE founder_call(caller, "set_privacy_state", result,
                          [g_state[caller].fields EXCEPT !.privacy = privacy_state])

\* A topic check that lets every role pass.
TopicSetterAny(role_of_setter, topic_lock) == TRUE

\* Who may set the topic: the founder and moderators when the topic lock is
\* enabled, anyone except observers when it is disabled.
TopicSetterOk(role_of_setter, topic_lock) ==
    IF topic_lock = "TL_ENABLED"
    THEN role_of_setter \in {"FOUNDER", "MODERATOR"}
    ELSE role_of_setter # "OBSERVER"

SetTopicResult(caller, topic) ==
    IF topic = "too_long" THEN "TOO_LONG"
    ELSE IF ~TopicSetterOk(GRole[caller], g_state[caller].fields.topic_lock) THEN "PERMISSIONS"
    ELSE "OK"

\* The caller sets the topic: version + 1, its own key as setter, signed,
\* one TOPIC to every peer.
tox_group_set_topic(caller, topic) ==
    LET result == SetTopicResult(caller, topic)
        info == sign_gc_topic(g_topic[caller].version + 1, topic, caller) IN
        /\ GLinkIdle
        /\ IF result = "OK"
           THEN /\ g_topic[caller].version < MaxTopicVersion
                /\ g_topic' = [g_topic EXCEPT ![caller] = info]
                /\ glink' = send_gc_lossless_packet_all_peers(caller, GTopicPacket(info))
           ELSE UNCHANGED <<g_topic, glink>>
        /\ UNCHANGED <<g_state, g_events, g_handled>>
        /\ g_call' = GCall("set_topic", result)

\* Peer q sends the shared state it holds to peer p once more (the answer to
\* a sync request with the STATE flag).
send_peer_shared_state(q, p) ==
    /\ q # p
    /\ GLinkIdle
    /\ glink' = [glink EXCEPT ![<<q, p>>] = Append(@, GStatePacket(g_state[q]))]
    /\ UNCHANGED <<g_state, g_topic, g_events, g_handled, g_call>>

\* Every event, whatever changed.
SharedStateChangesAll(old, new) == {"privacy", "password", "maxpeers", "topic_lock"}

\* The events a change of the shared state from `old` to `new` triggers.
do_gc_shared_state_changes(old, new) ==
    {e \in {"privacy", "password", "maxpeers", "topic_lock"} : old[e] # new[e]}

\* Peer p handles a SHARED_STATE.
handle_gc_state_packet(p, pkt) ==
    LET cur == g_state[p]
        ok == /\ crypto_sign_verify(ChatId, pkt.sig, pkt.fields)
              /\ SharedStateVersionOk(pkt.fields.version, cur.fields.version)
    IN  /\ g_state' = [g_state EXCEPT ![p] = IF ok THEN pkt ELSE cur]
        /\ g_events' = IF ok THEN do_gc_shared_state_changes(cur.fields, pkt.fields) ELSE {}
        /\ UNCHANGED g_topic

\* Peer p handles a TOPIC: the setter must be allowed to set the topic, the
\* signature must verify under the setter's key and the version must not be
\* older than the version of the topic p holds.
handle_gc_topic(p, info) ==
    LET cur == g_topic[p]
        ok == /\ TopicSetterOk(GRole[info.setter], g_state[p].fields.topic_lock)
              /\ crypto_sign_verify(GSigKey(info.setter), info.sig, <<info.version, info.topic>>)
              /\ info.version >= cur.version
    IN  /\ g_topic' = [g_topic EXCEPT ![p] = IF ok THEN info ELSE cur]
        /\ g_events' = IF ok /\ info.topic # cur.topic THEN {"topic"} ELSE {}
        /\ UNCHANGED g_state

\* Peer p takes the next packet off the link from -> p and handles it.
handle_gc_founder_packet(from, p) ==
    /\ <<from, p>> \in GLinks
    /\ glink[<<from, p>>] # <<>>
    /\ glink' = [glink EXCEPT ![<<from, p>>] = Tail(@)]
    /\ LET m == Head(glink[<<from, p>>]) IN
        IF m.type = "SHARED_STATE"
        THEN /\ handle_gc_state_packet(p, m.ss)
             /\ g_handled' = Compare(m.ss.fields.version, g_state[p].fields.version)
        ELSE /\ handle_gc_topic(p, m.info)
             /\ g_handled' = "topic"
    /\ UNCHANGED g_call

FounderStep ==
    \/ \E c \in GPeers, x \in PasswordArgs : tox_group_founder_set_password(c, x)
    \/ \E c \in GPeers, x \in TopicLockArgs : tox_group_founder_set_topic_lock(c, x)
    \/ \E c \in GPeers, x \in PeerLimits : tox_group_founder_set_peer_limit(c, x)
    \/ \E c \in GPeers, x \in PrivacyStates : tox_group_founder_set_privacy_state(c, x)
    \/ \E c \in GPeers, x \in TopicArgs : tox_group_set_topic(c, x)
    \/ \E q \in {"M", "U"}, p \in GPeers : send_peer_shared_state(q, p)
    \/ \E from, p \in GPeers : handle_gc_founder_packet(from, p)

\* ---------------------------------------------------------------------------
\* Part 6: messages.  Peer B sends group messages to its confirmed peers and
\* private messages to one of them; peer A ignores and unignores B; peers A
\* and C handle what arrives on their links, in order.
\* ---------------------------------------------------------------------------

MSender == "B"
MReceivers == {"A", "C"}
MessageTypes == {"NORMAL", "ACTION"}
\* Message bytes of two lengths.
Texts == {<<104>>, <<104, 105>>}

VARIABLES
    m_confirmed,  \* the peers B holds a confirmed link to
    m_ignore,     \* receiver -> the peers it ignores
    mlink,        \* receiver -> packets in flight on the link B -> receiver, in order
    m_upcall,     \* the upcall the last handled packet invoked, or none
    m_handled     \* the last handled packet: its receiver, whether the receiver
                  \* ignored B when it was sent and when it was handled

msgvars == <<m_confirmed, m_ignore, mlink, m_upcall, m_handled>>

NoUpcall == [event |-> "none"]

InitMessages ==
    /\ m_confirmed = MReceivers
    /\ m_ignore = [r \in MReceivers |-> {}]
    /\ mlink = [r \in MReceivers |-> <<>>]
    /\ m_upcall = NoUpcall
    /\ m_handled = [peer |-> "none", sent_ignored |-> FALSE, ignored |-> FALSE]

\* TOX_MESSAGE_TYPE on the wire.
MessageTypeCode(type) == IF type = "NORMAL" THEN 0 ELSE 1
MessageTypeOfCode(code) == IF code = 0 THEN "NORMAL" ELSE "ACTION"

\* A private message carries its type in front of the message bytes; a group
\* message carries its type as the broadcast type.
PrivateMessagePayload(type, message) == <<MessageTypeCode(type)>> \o message
GroupBroadcastType(type) == IF type = "NORMAL" THEN "GM_PLAIN_MESSAGE" ELSE "GM_ACTION_MESSAGE"

\* A broadcast packet; `to` is the peer it was made for and `ignored` whether
\* that peer ignored the sender when it was sent.
MPacket(bc_type, payload, to) ==
    [type |-> bc_type, payload |-> payload, to |-> to,
     ignored |-> MSender \in m_ignore[to]]

\* A call that sends waits until the packets of the previous one are handled.
MLinkIdle == \A r \in MReceivers : mlink[r] = <<>>

\* A broadcast that reaches every peer, confirmed or not.
BroadcastTargetsAll == MReceivers

\* A broadcast goes to every confirmed peer.
BroadcastTargets == m_confirmed

\* B sends a group message: one copy to each confirmed peer.
tox_group_send_message(type, message) ==
    /\ MLinkIdle
    /\ mlink' = [r \in MReceivers |->
                    IF r \in BroadcastTargets
                    THEN Append(mlink[r], MPacket(GroupBroadcastType(type), message, r))
                    ELSE mlink[r]]
    /\ UNCHANGED <<m_confirmed, m_ignore, m_upcall, m_handled>>

\* A private message that goes out as a broadcast.
PrivateTargetsAll(target) == BroadcastTargets

\* A private message goes to its target only.
PrivateTargets(target) == {target}

\* B sends a private message to `target`, which must be a confirmed peer.
tox_group_send_private_message(target, type, message) ==
    /\ MLinkIdle
    /\ target \in m_confirmed
    /\ mlink' = [r \in MReceivers |->
                    IF r \in PrivateTargets(target)
                    THEN Append(mlink[r], MPacket("GM_PRIVATE_MESSAGE",
                                                  PrivateMessagePayload(type, message), target))
                    ELSE mlink[r]]
    /\ UNCHANGED <<m_confirmed, m_ignore, m_upcall, m_handled>>

\* Peer r ignores or unignores B.
tox_group_toggle_ignore(r, ignore_flag) ==
    /\ m_ignore' = [m_ignore EXCEPT ![r] =
                        IF ignore_flag THEN @ \cup {MSender} ELSE @ \ {MSender}]
    /\ UNCHANGED <<m_confirmed, mlink, m_upcall, m_handled>>

\* The link B - r times out, or is confirmed again; packets in flight on a
\* link that times out are lost.
gc_peer_timeout(r) ==
    /\ r \in m_confirmed
    /\ m_confirmed' = m_confirmed \ {r}
    /\ mlink' = [mlink EXCEPT ![r] = <<>>]
    /\ UNCHANGED <<m_ignore, m_upcall, m_handled>>

gc_peer_confirm(r) ==
    /\ r \notin m_confirmed
    /\ m_confirmed' = m_confirmed \cup {r}
    /\ UNCHANGED <<m_ignore, mlink, m_upcall, m_handled>>

\* A receiver that delivers the messages of ignored peers too.
IgnoresNobody(r, from) == FALSE

\* Peer r ignores peer `from` now.
peer_is_ignored(r, from) == from \in m_ignore[r]

\* The upcall a packet of B invokes at r: none when r ignores B.
MessageUpcall(r, m) ==
    IF peer_is_ignored(r, MSender) THEN NoUpcall
    ELSE IF m.type = "GM_PRIVATE_MESSAGE"
    THEN [event |-> "private_message", peer |-> r,
          type |-> MessageTypeOfCode(Head(m.payload)), message |-> Tail(m.payload)]
    ELSE [event |-> "message", peer |-> r,
          type |-> IF m.type = "GM_PLAIN_MESSAGE" THEN "NORMAL" ELSE "ACTION",
          message |-> m.payload]

\* Peer r takes the next packet off its link and handles it; a packet that
\* invokes no upcall is gone.
handle_gc_message(r) ==
    /\ mlink[r] # <<>>
    /\ mlink' = [mlink EXCEPT ![r] = Tail(@)]
    /\ m_upcall' = MessageUpcall(r, Head(mlink[r]))
    /\ m_handled' = [peer |-> r, sent_ignored |-> Head(mlink[r]).ignored,
                     ignored |-> MSender \in m_ignore[r]]
    /\ UNCHANGED <<m_confirmed, m_ignore>>

MessagesStep ==
    \/ \E t \in MessageTypes, x \in Texts : tox_group_send_message(t, x)
    \/ \E r \in MReceivers, t \in MessageTypes, x \in Texts :
            tox_group_send_private_message(r, t, x)
    \/ \E f \in BOOLEAN : tox_group_toggle_ignore("A", f)
    \/ \E r \in MReceivers : gc_peer_timeout(r)
    \/ \E r \in MReceivers : gc_peer_confirm(r)
    \/ \E r \in MReceivers : handle_gc_message(r)

\* ---------------------------------------------------------------------------
\* Part 7: state syncing.  Peers send their peer count, the checksum of their
\* peer list and their versions with every ping; a peer that finds itself
\* behind asks the sender of the ping for what it lacks.
\* ---------------------------------------------------------------------------

MaxPingVersion == 1

PingPeers == {"A", "B"}
PingOthers == {"C", "D"}

\* The permanent public keys of the peers (bytes).
PublicKey ==
    [A |-> <<17, 4>>, B |-> <<250, 9>>, C |-> <<3, 128>>, D |-> <<255, 255>>]

RECURSIVE KeySum(_)
KeySum(key) == IF key = <<>> THEN 0 ELSE Head(key) + KeySum(Tail(key))

\* The 16-bit checksum of a peer list: self and the confirmed peers.
RECURSIVE PeerListChecksum(_)
PeerListChecksum(list) ==
    IF list = {} THEN 0
    ELSE LET p == CHOOSE x \in list : TRUE IN
            (KeySum(PublicKey[p]) + PeerListChecksum(list \ {p})) % 65536

\* What a peer sends with a ping: the count of its confirmed peers, the
\* checksum of its peer list and its three versions.
PingData(self, confirmed, versions) ==
    [peer_count |-> Cardinality(confirmed),
     checksum |-> PeerListChecksum(confirmed \cup {self}),
     shared_state_version |-> versions.shared_state,
     sanctions_creds_version |-> versions.sanctions_creds,
     topic_version |-> versions.topic]

\* A peer list check that asks only a peer that has more peers.
PeerListBehindStrict(own, ping) ==
    ping.checksum # own.checksum /\ ping.peer_count > own.peer_count

\* The peer list checksum does not match and the own peer count is not
\* greater than the peer count received.
PeerListBehind(own, ping) ==
    ping.checksum # own.checksum /\ ~(own.peer_count > ping.peer_count)

\* Sync flags that leave the sanctions credentials out.
SyncFlagsNoCreds(own, ping) ==
    (IF PeerListBehind(own, ping) THEN {"PEER_LIST"} ELSE {})
    \cup (IF ping.topic_version > own.topic_version THEN {"TOPIC"} ELSE {})
    \cup (IF ping.shared_state_version > own.shared_state_version THEN {"STATE"} ELSE {})

\* The sync flags a received ping sets at a peer whose own ping data is `own`.
SyncFlags(own, ping) ==
    (IF PeerListBehind(own, ping) THEN {"PEER_LIST"} ELSE {})
    \cup (IF ping.topic_version > own.topic_version THEN {"TOPIC"} ELSE {})
    \cup (IF \/ ping.shared_state_version > own.shared_state_version
             \/ ping.sanctions_creds_version > own.sanctions_creds_version
          THEN {"STATE"} ELSE {})

VARIABLES
    pg_peers,     \* peer -> its confirmed peers
    pg_versions,  \* peer -> its shared state, sanctions credentials and topic versions
    pg_ping,      \* sender -> its ping in flight (a sequence of at most one)
    pg_sync       \* peer -> whether it has handled the other's ping, and the
                  \* flags of the sync request it sent (none: no request)

pgvars == <<pg_peers, pg_versions, pg_ping, pg_sync>>

PingArtifacts == {"shared_state", "sanctions_creds", "topic"}

OtherPingPeer(p) == IF p = "A" THEN "B" ELSE "A"

NotHandled == [handled |-> FALSE, flags |-> {}]

InitPing ==
    /\ pg_peers = [p \in PingPeers |-> {OtherPingPeer(p)}]
    /\ pg_versions = [p \in PingPeers |-> [a \in PingArtifacts |-> 0]]
    /\ pg_ping = [p \in PingPeers |-> <<>>]
    /\ pg_sync = [p \in PingPeers |-> NotHandled]

\* No ping is in flight: the lists and versions of the peers change between
\* two exchanges of pings.
PingIdle == \A p \in PingPeers : pg_ping[p] = <<>>

\* Peer p confirms peer x, or drops it from its peer list.
peer_list_change(p, x) ==
    /\ PingIdle
    /\ pg_peers' = [pg_peers EXCEPT ![p] = IF x \in @ THEN @ \ {x} ELSE @ \cup {x}]
    /\ pg_sync' = [q \in PingPeers |-> NotHandled]
    /\ UNCHANGED <<pg_versions, pg_ping>>

\* Peer p takes a new version of one of the three artifacts.
version_change(p, artifact) ==
    /\ PingIdle
    /\ pg_versions[p][artifact] < MaxPingVersion
    /\ pg_versions' = [pg_versions EXCEPT ![p][artifact] = @ + 1]
    /\ pg_sync' = [q \in PingPeers |-> NotHandled]
    /\ UNCHANGED <<pg_peers, pg_ping>>

self_ping_data(p) == PingData(p, pg_peers[p], pg_versions[p])

\* Peer p sends its ping to the other peer.
send_gc_ping(p) ==
    /\ pg_ping[p] = <<>>
    /\ ~pg_sync[OtherPingPeer(p)].handled
    /\ pg_ping' = [pg_ping EXCEPT ![p] = <<self_ping_data(p)>>]
    /\ UNCHANGED <<pg_peers, pg_versions, pg_sync>>

\* Peer p handles the ping of the other peer: it sends a sync request with
\* the flags of what it lacks, or nothing when it lacks nothing.
handle_gc_ping(p) ==
    LET from == OtherPingPeer(p) IN
        /\ pg_ping[from] # <<>>
        /\ pg_sync' = [pg_sync EXCEPT ![p] =
                [handled |-> TRUE, flags |-> SyncFlags(self_ping_data(p), Head(pg_ping[from]))]]
        /\ pg_ping' = [pg_ping EXCEPT ![from] = <<>>]
        /\ UNCHANGED <<pg_peers, pg_versions>>

PingStep ==
    \/ \E p \in PingPeers, x \in PingOthers : peer_list_change(p, x)
    \/ \E p \in PingPeers, a \in PingArtifacts : version_change(p, a)
    \/ \E p \in PingPeers : send_gc_ping(p)
    \/ \E p \in PingPeers : handle_gc_ping(p)

\* ---------------------------------------------------------------------------
\* Part 8: a group split and its repair.  The founder B and the peers A and C
\* hold each other as confirmed peers; the network splits into {A} and
\* {B, C} until each side has dropped the other; after the split A finds one
\* peer of the group again and the peers sync by their pings.
\* ---------------------------------------------------------------------------

MaxSyncVersion == 2

SyPeers == {"A", "B", "C"}
SyFounder == "B"
SyLinks == {l \in SyPeers \X SyPeers : l[1] # l[2]}

VARIABLES
    sy_phase,    \* "connected", "split" or "healed"
    sy_peers,    \* peer -> its confirmed peers
    sy_known,    \* peer -> the peers it has an announce of and no link to yet
    sy_state,    \* peer -> the shared state it holds
    sy_mods,     \* peer -> the moderator list it holds
    sy_link,     \* link -> the lossless packets in flight, in order
    sy_request   \* whether the last step sent a SYNC_REQUEST

syvars == <<sy_phase, sy_peers, sy_known, sy_state, sy_mods, sy_link, sy_request>>

InitSync ==
    /\ sy_phase = "connected"
    /\ sy_peers = [p \in SyPeers |-> SyPeers \ {p}]
    /\ sy_known = [p \in SyPeers |-> {}]
    /\ sy_state = [p \in SyPeers |-> InitSharedState]
    /\ sy_mods = [p \in SyPeers |-> <<>>]
    /\ sy_link = [l \in SyLinks |-> <<>>]
    /\ sy_request = FALSE

\* Peers p and q are on different sides of the split.
OnCut(p, q) == (p = "A") # (q = "A")

\* A packet of p can reach q.
Reachable(p, q) == sy_phase # "split" \/ ~OnCut(p, q)

\* The ping data of peer p: sanctions credentials and topic stay as created.
sy_ping_data(p) ==
    PingData(p, sy_peers[p],
             [shared_state |-> sy_state[p].fields.version, sanctions_creds |-> 0, topic |-> 0])

SyncRequestPacket(flags) == [type |-> "SYNC_REQUEST", flags |-> flags]
SyncResponsePacket(peer) == [type |-> "SYNC_RESPONSE", announce |-> peer]

\* A set of at most three peers as a sequence.
RECURSIVE SeqOfSet(_)
SeqOfSet(set) ==
    IF set = {} THEN <<>>
    ELSE LET x == CHOOSE y \in set : TRUE IN <<x>> \o SeqOfSet(set \ {x})

\* Peer p has no lossless packet in flight, to it or from it.
PeerIdle(p) == \A l \in SyLinks : (l[1] = p \/ l[2] = p) => sy_link[l] = <<>>

\* The founder adds or removes a moderator: new moderator list, new shared
\* state with its hash and the next version, SHARED_STATE and then MOD_LIST
\* to every confirmed peer a packet can reach.
sy_founder_set_moderator(key) ==
    LET f == SyFounder
        add_mod == \A i \in 1..Len(sy_mods[f]) : sy_mods[f][i] # key
        list == IF add_mod THEN mod_list_add_entry(sy_mods[f], key)
                ELSE mod_list_remove_entry(sy_mods[f], key)
        ss == sign_gc_shared_state(
                [sy_state[f].fields EXCEPT !.version = @ + 1,
                                           !.mod_list_hash = mod_list_make_hash(list)])
    IN  /\ sy_state[f].fields.version < MaxSyncVersion
        /\ PeerIdle(f)
        /\ sy_mods' = [sy_mods EXCEPT ![f] = list]
        /\ sy_state' = [sy_state EXCEPT ![f] = ss]
        /\ sy_link' = [l \in SyLinks |->
                        IF l[1] = f /\ l[2] \in sy_peers[f] /\ Reachable(f, l[2])
                        THEN sy_link[l] \o <<SsPacket(ss), ModListPacket(list)>>
                        ELSE sy_link[l]]
        /\ sy_request' = FALSE
        /\ UNCHANGED <<sy_phase, sy_peers, sy_known>>

\* The network splits: what is in flight between the two sides is lost.
network_split ==
    /\ sy_phase = "connected"
    /\ sy_phase' = "split"
    /\ sy_link' = [l \in SyLinks |-> IF OnCut(l[1], l[2]) THEN <<>> ELSE sy_link[l]]
    /\ sy_request' = FALSE
    /\ UNCHANGED <<sy_peers, sy_known, sy_state, sy_mods>>

\* Peer p has received no ping of its confirmed peer q for the confirmed
\* peer timeout: it drops q from its peer list.
sy_peer_timeout(p, q) ==
    /\ sy_phase = "split"
    /\ OnCut(p, q)
    /\ q \in sy_peers[p]
    /\ sy_peers' = [sy_peers EXCEPT ![p] = @ \ {q}]
    /\ sy_request' = FALSE
    /\ UNCHANGED <<sy_phase, sy_known, sy_state, sy_mods, sy_link>>

\* The split ends after each side has dropped the other.  A, left without
\* peers, finds an announce of one peer of the group.
network_heal(x) ==
    /\ sy_phase = "split"
    /\ \A p, q \in SyPeers : OnCut(p, q) => q \notin sy_peers[p]
    /\ sy_phase' = "healed"
    /\ sy_known' = [sy_known EXCEPT !["A"] = {x}]
    /\ sy_request' = FALSE
    /\ UNCHANGED <<sy_peers, sy_state, sy_mods, sy_link>>

\* Peer p, which holds an announce of q, completes the handshake with q:
\* each holds the other as a confirmed peer.
sy_handshake(p, q) ==
    /\ q \in sy_known[p]
    /\ Reachable(p, q)
    /\ sy_peers' = [sy_peers EXCEPT ![p] = @ \cup {q}, ![q] = @ \cup {p}]
    /\ sy_known' = [sy_known EXCEPT ![p] = @ \ {q}, ![q] = @ \ {p}]
    /\ sy_request' = FALSE
    /\ UNCHANGED <<sy_phase, sy_state, sy_mods, sy_link>>

\* Peer p handles a ping its confirmed peer q has sent: when the ping shows
\* p to be behind and p has nothing in flight, p sends a sync request with
\* the flags of what it lacks.
sy_handle_ping(p, q) ==
    LET flags == SyncFlags(sy_ping_data(p), sy_ping_data(q))
        send == /\ q \in sy_peers[p]
                /\ flags # {}
                /\ PeerIdle(p)
    IN  /\ p \in sy_peers[q]
        /\ Reachable(q, p)
        /\ sy_link' = [sy_link EXCEPT ![<<p, q>>] =
                        IF send THEN Append(@, SyncRequestPacket(flags)) ELSE @]
        /\ sy_request' = send
        /\ UNCHANGED <<sy_phase, sy_peers, sy_known, sy_state, sy_mods>>

\* A response that leaves the peer list out.
SyncResponseNoPeers(p, q, flags) ==
    IF "STATE" \in flags
    THEN <<SsPacket(sy_state[p]), ModListPacket(sy_mods[p])>> ELSE <<>>

\* What peer p sends in response to a sync request of q with `flags`: its
\* shared state and then its moderator list, and one sync response for each
\* other peer of its peer list.
SyncResponse(p, q, flags) ==
    (IF "STATE" \in flags
     THEN <<SsPacket(sy_state[p]), ModListPacket(sy_mods[p])>> ELSE <<>>)
    \o (IF "PEER_LIST" \in flags
        THEN [i \in 1..Cardinality(sy_peers[p] \ {q}) |->
                SyncResponsePacket(SeqOfSet(sy_peers[p] \ {q})[i])]
        ELSE <<>>)

\* Peer p takes the next lossless packet off the link q -> p and handles it.
sy_handle_packet(p, q) ==
    /\ sy_link[<<q, p>>] # <<>>
    /\ LET m == Head(sy_link[<<q, p>>])
           rest == [sy_link EXCEPT ![<<q, p>>] = Tail(@)]
       IN  /\ sy_link' = IF m.type = "SYNC_REQUEST" /\ q \in sy_peers[p]
                         THEN [rest EXCEPT ![<<p, q>>] = @ \o SyncResponse(p, q, m.flags)]
                         ELSE rest
           /\ sy_state' = IF /\ m.type = "SHARED_STATE"
                             /\ crypto_sign_verify(ChatId, m.ss.sig, m.ss.fields)
                             /\ SharedStateVersionOk(m.ss.fields.version,
                                                     sy_state[p].fields.version)
                          THEN [sy_state EXCEPT ![p] = m.ss] ELSE sy_state
           /\ sy_mods' = IF m.type = "MOD_LIST" /\ mod_list_verify(m.list, sy_state[p])
                         THEN [sy_mods EXCEPT ![p] = m.list] ELSE sy_mods
           /\ sy_known' = IF /\ m.type = "SYNC_RESPONSE"
                             /\ m.announce \notin sy_peers[p] \cup {p}
                          THEN [sy_known EXCEPT ![p] = @ \cup {m.announce}] ELSE sy_known
    /\ sy_request' = FALSE
    /\ UNCHANGED <<sy_phase, sy_peers>>

SyncStep ==
    \/ \E k \in ModKeys : sy_founder_set_moderator(k)
    \/ network_split
    \/ \E p, q \in SyPeers : sy_peer_timeout(p, q)
    \/ \E x \in SyPeers \ {"A"} : network_heal(x)
    \/ \E p, q \in SyPeers : sy_handshake(p, q)
    \/ \E l \in SyLinks : sy_handle_ping(l[1], l[2])
    \/ \E l \in SyLinks : sy_handle_packet(l[1], l[2])

\* ---------------------------------------------------------------------------
\* Part 9: a topic race.  The moderators M1 and M2 and the user P hold the
\* topic the founder set first; the topic lock is enabled.  The moderators
\* set the topic whenever they like, also while a TOPIC of the other one is
\* still on its way; every link delivers its packets in the order sent.
\* ---------------------------------------------------------------------------

MaxRaceVersion == 2

TrPeers == {"M1", "M2", "P"}

TrRole == [p \in TrPeers \cup {"F"} |->
             IF p = "F" THEN "FOUNDER" ELSE IF p = "P" THEN "USER" ELSE "MODERATOR"]

TrLinks == {l \in TrPeers \X TrPeers : l[1] # l[2]}

RaceTopics == {"one", "two"}

\* tr_made: every topic_info that was ever signed.
VARIABLES tr_topic, tr_link, tr_made

trvars == <<tr_topic, tr_link, tr_made>>

InitRace ==
    /\ tr_topic = [p \in TrPeers |-> sign_gc_topic(0, "topic", "F")]
    /\ tr_link = [l \in TrLinks |-> <<>>]
    /\ tr_made = {sign_gc_topic(0, "topic", "F")}

\* A version check that lets every version pass.
TopicVersionAnyOrder(version, current) == TRUE

\* The receiver's version check: the version is not older than the version
\* of the topic the receiver holds.
TopicVersionOk(version, current) == version >= current

\* Peer m sets the topic: version + 1, its own key as setter, signed, one
\* TOPIC to every other peer.  A peer that may not set the topic changes
\* nothing.
tr_set_topic(m, topic) ==
    IF TopicSetterOk(TrRole[m], "TL_ENABLED")
    THEN LET info == sign_gc_topic(tr_topic[m].version + 1, topic, m) IN
         /\ tr_topic[m].version < MaxRaceVersion
         /\ tr_topic' = [tr_topic EXCEPT ![m] = info]
         /\ tr_link' = [l \in TrLinks |->
                          IF l[1] = m THEN Append(tr_link[l], GTopicPacket(info))
                          ELSE tr_link[l]]
         /\ tr_made' = tr_made \cup {info}
    ELSE UNCHANGED trvars

\* Peer p handles the next TOPIC of the link from -> p: the setter must be
\* the founder or a moderator, the signature must verify under the setter's
\* key and the version must pass the version check.
tr_handle_topic(from, p) ==
    /\ <<from, p>> \in TrLinks
    /\ tr_link[<<from, p>>] # <<>>
    /\ LET info == Head(tr_link[<<from, p>>]).info
           cur == tr_topic[p]
           ok == /\ TopicSetterOk(TrRole[info.setter], "TL_ENABLED")
                 /\ crypto_sign_verify(GSigKey(info.setter), info.sig,
                                       <<info.version, info.topic>>)
                 /\ TopicVersionOk(info.version, cur.version)
       IN  tr_topic' = [tr_topic EXCEPT ![p] = IF ok THEN info ELSE cur]
    /\ tr_link' = [tr_link EXCEPT ![<<from, p>>] = Tail(@)]
    /\ UNCHANGED tr_made

RaceStep ==
    \/ \E m \in TrPeers, t \in RaceTopics : tr_set_topic(m, t)
    \/ \E l \in TrLinks : tr_handle_topic(l[1], l[2])

\* ---------------------------------------------------------------------------
\* Part 10: a peer disconnects from the group and reconnects.  Peer P holds
\* its self state (permanent keys, nickname, status, role); peer Q holds an
\* entry for P while P is connected to it.  Every handshake generates a new
\* session keypair.
\* ---------------------------------------------------------------------------

MaxSessions == 3

RjNicks == {"nick", "other"}

RjStatuses == {"GS_NONE", "GS_AWAY"}

RjRoles == {"MODERATOR", "USER", "OBSERVER"}

\* rj_self: the self state of P.  rj_conn: the connection state of P's
\* group.  rj_session: the session key of the link P - Q at P (0: none).
\* rj_keys: the number of session keys generated so far.  rj_view: the entry
\* Q holds for P.  rj_seen: the last entry Q held for P before it dropped it.
VARIABLES rj_self, rj_conn, rj_session, rj_keys, rj_view, rj_seen

rjvars == <<rj_self, rj_conn, rj_session, rj_keys, rj_view, rj_seen>>

NoPeer == [present |-> FALSE]

\* What a peer tells about itself in a PEER_INFO_RESPONSE, with the
\* permanent keys the handshake carries and the session key of the link.
PeerEntry(self, session) ==
    [present |-> TRUE, enc_pk |-> self.enc_pk, sig_pk |-> self.sig_pk,
     nick |-> self.nick, status |-> self.status, role |-> self.role,
     session |-> session]

InitRejoin ==
    /\ rj_self = [enc_pk |-> PublicKey["A"], sig_pk |-> GSigKey("A"),
                  nick |-> "nick", status |-> "GS_NONE", role |-> "USER"]
    /\ rj_conn = "connected"
    /\ rj_session = 1
    /\ rj_keys = 1
    /\ rj_view = PeerEntry(rj_self, 1)
    /\ rj_seen = NoPeer

\* A reconnect that joins the group anew: new permanent keys, role user.
JoinAnew(self) ==
    [self EXCEPT !.enc_pk = PublicKey["B"], !.sig_pk = GSigKey("B"), !.role = "USER"]

\* The self state a reconnect starts with: all self state and credentials
\* are retained.
RetainSelf(self) == self

\* Q's entry for P follows what P broadcasts while the two are connected.
RjBroadcast(self) ==
    IF rj_conn = "connected" /\ rj_view.present
    THEN PeerEntry(self, rj_view.session) ELSE rj_view

\* P sets its nickname.
rj_set_self_nick(nick) ==
    /\ rj_self.nick # nick
    /\ rj_self' = [rj_self EXCEPT !.nick = nick]
    /\ rj_view' = RjBroadcast(rj_self')
    /\ UNCHANGED <<rj_conn, rj_session, rj_keys, rj_seen>>

\* P sets its status.
rj_set_self_status(status) ==
    /\ rj_self.status # status
    /\ rj_self' = [rj_self EXCEPT !.status = status]
    /\ rj_view' = RjBroadcast(rj_self')
    /\ UNCHANGED <<rj_conn, rj_session, rj_keys, rj_seen>>

\* The founder sets the role of P, a peer it is connected to.
rj_set_peer_role(new_role) ==
    /\ rj_conn = "connected"
    /\ rj_view.present
    /\ rj_self.role # new_role
    /\ rj_self' = [rj_self EXCEPT !.role = new_role]
    /\ rj_view' = RjBroadcast(rj_self')
    /\ UNCHANGED <<rj_conn, rj_session, rj_keys, rj_seen>>

\* P disconnects from all peers; the group state is kept.
gc_disconnect_from_group ==
    /\ rj_conn # "disconnected"
    /\ rj_conn' = "disconnected"
    /\ rj_session' = 0
    /\ UNCHANGED <<rj_self, rj_keys, rj_view, rj_seen>>

\* P disconnects from all peers and attempts to reconnect.
gc_rejoin_group ==
    /\ rj_keys < MaxSessions
    /\ rj_self' = RetainSelf(rj_self)
    /\ rj_conn' = "connecting"
    /\ rj_session' = 0
    /\ UNCHANGED <<rj_keys, rj_view, rj_seen>>

\* Q drops its entry for P: P's exit reached it or P timed out.
rj_peer_exit ==
    /\ rj_conn # "connected"
    /\ rj_view.present
    /\ rj_seen' = rj_view
    /\ rj_view' = NoPeer
    /\ UNCHANGED <<rj_self, rj_conn, rj_session, rj_keys>>

\* P and Q complete the handshake and exchange their peer info: both take
\* the key of a new session.
rj_handshake ==
    /\ rj_conn = "connecting"
    /\ ~rj_view.present
    /\ rj_keys' = rj_keys + 1
    /\ rj_session' = rj_keys'
    /\ rj_view' = PeerEntry(rj_self, rj_keys')
    /\ rj_conn' = "connected"
    /\ UNCHANGED <<rj_self, rj_seen>>

RejoinStep ==
    \/ \E n \in RjNicks : rj_set_self_nick(n)
    \/ \E s \in RjStatuses : rj_set_self_status(s)
    \/ \E r \in RjRoles : rj_set_peer_role(r)
    \/ gc_disconnect_from_group
    \/ gc_rejoin_group
    \/ rj_peer_exit
    \/ rj_handshake

\* ---------------------------------------------------------------------------
\* Part 11: the saved group.  The founder F and the peer P each hold a group
\* instance.  The moderator list (with the shared state), the sanctions list
\* and the nicknames change; each instance is packed into its saved record
\* and loaded from it again at any time.
\* ---------------------------------------------------------------------------

MaxSaveVersion == 2

SavePeers == {"F", "P"}

SaveNicks == {"nick", "other"}

\* sv_chat: peer -> its group instance.  sv_load: the last load, with the
\* instance as it was when it was packed.
VARIABLES sv_chat, sv_load

savevars == <<sv_chat, sv_load>>

\* The shared state of the group, signed with the group secret key.
SaveSharedState(version, list) ==
    sign_gc_shared_state([version |-> version, founder |-> GSigKey("F"),
                          mod_list_hash |-> mod_list_make_hash(list)])

NoSanctions == [entries |-> <<>>, version |-> 0]

InitSave ==
    /\ sv_chat = [p \in SavePeers |->
                    [self_pk |-> <<<<"enc_pk", p>>, GSigKey(p)>>,
                     self_sk |-> <<<<"enc_sk", p>>, <<"sig_sk", p>>>>,
                     chat_sk |-> IF p = "F" THEN <<"chat_enc_sk", "chat_sig_sk">> ELSE <<>>,
                     shared_state |-> SaveSharedState(0, <<>>),
                     mod_list |-> <<>>,
                     sanctions |-> NoSanctions,
                     nick |-> "nick",
                     connected |-> TRUE,
                     peers |-> SavePeers \ {p}]]
    /\ sv_load = [peer |-> "none"]

\* A saved record that leaves out the moderator list.
PackWithoutModList(chat) ==
    [self_pk |-> chat.self_pk, self_sk |-> chat.self_sk, chat_sk |-> chat.chat_sk,
     shared_state |-> chat.shared_state, mod_list |-> <<>>, nick |-> chat.nick,
     connected |-> chat.connected]

\* The saved record of a group: the identity keys, the group secret keys
\* (founder), the shared state, the moderator list, the nickname and the
\* connection state.  The sanctions list is not saved.
gc_pack_group_info(chat) ==
    [self_pk |-> chat.self_pk, self_sk |-> chat.self_sk, chat_sk |-> chat.chat_sk,
     shared_state |-> chat.shared_state, mod_list |-> chat.mod_list, nick |-> chat.nick,
     connected |-> chat.connected]

\* The group instance made from a saved record: it has no peers yet and an
\* empty sanctions list.
gc_group_load(save) ==
    [self_pk |-> save.self_pk, self_sk |-> save.self_sk, chat_sk |-> save.chat_sk,
     shared_state |-> save.shared_state, mod_list |-> save.mod_list,
     sanctions |-> NoSanctions, nick |-> save.nick, connected |-> save.connected,
     peers |-> {}]

\* The founder adds or removes a moderator; every instance takes the new
\* shared state and moderator list.
sv_set_moderator(key) ==
    LET old == sv_chat["F"].mod_list
        list == IF \E i \in 1..Len(old) : old[i] = key
                THEN mod_list_remove_entry(old, key) ELSE mod_list_add_entry(old, key)
        version == sv_chat["F"].shared_state.fields.version + 1
    IN  /\ version <= MaxSaveVersion
        /\ sv_chat' = [p \in SavePeers |->
                         [sv_chat[p] EXCEPT !.shared_state = SaveSharedState(version, list),
                                            !.mod_list = list]]
        /\ UNCHANGED sv_load

\* The founder makes peer P an observer or a user again; every instance
\* takes the new sanctions list.
sv_set_observer(flag) ==
    LET new == [entries |-> IF flag THEN <<sanctions_list_make_entry("P", GSigKey("F"))>>
                            ELSE <<>>,
                version |-> 1]
    IN  /\ \E p \in SavePeers : sv_chat[p].sanctions # new
        /\ sv_chat' = [p \in SavePeers |-> [sv_chat[p] EXCEPT !.sanctions = new]]
        /\ UNCHANGED sv_load

\* A peer sets its nickname.
sv_set_self_nick(p, nick) ==
    /\ sv_chat[p].nick # nick
    /\ sv_chat' = [sv_chat EXCEPT ![p].nick = nick]
    /\ UNCHANGED sv_load

\* A peer disconnects from the group or connects to it again.
sv_toggle_connected(p) ==
    /\ sv_chat' = [sv_chat EXCEPT ![p].connected = ~@,
                                  ![p].peers = IF sv_chat[p].connected THEN {}
                                               ELSE SavePeers \ {p}]
    /\ UNCHANGED sv_load

\* The client of peer p restarts: the group is packed, and loaded from the
\* saved record.
sv_save_and_load(p) ==
    /\ sv_chat' = [sv_chat EXCEPT ![p] = gc_group_load(gc_pack_group_info(@))]
    /\ sv_load' = [peer |-> p, before |-> sv_chat[p]]

SaveStep ==
    \/ \E k \in ModKeys : sv_set_moderator(k)
    \/ \E f \in BOOLEAN : sv_set_observer(f)
    \/ \E p \in SavePeers, n \in SaveNicks : sv_set_self_nick(p, n)
    \/ \E p \in SavePeers : sv_toggle_connected(p)
    \/ \E p \in SavePeers : sv_save_and_load(p)

\* ---------------------------------------------------------------------------
\* Part 12: the requests of the receiver.  The receiver of one link handles
\* lossless packets that arrive in any order and any number of times, and
\* the clock advances second by second.  Requests (MESSAGE_ACK of type
\* GR_ACK_REQ) are limited to one per second per peer.
\* ---------------------------------------------------------------------------

MaxAckId == 4
MaxRequests == 2

AckIds == 1..MaxAckId

\* ra_rmid: the last id processed in order.  ra_buf: the ids buffered out of
\* order.  ra_requested: a request was sent to the peer during the current
\* second.  ra_count: id -> requests for it sent during the current second
\* (counted up to MaxRequests).  ra_last: the last packet handled, what was
\* handed to the application and the MESSAGE_ACK sent, if any.
VARIABLES ra_rmid, ra_buf, ra_requested, ra_count, ra_last

ravars == <<ra_rmid, ra_buf, ra_requested, ra_count, ra_last>>

NoAck == <<0, GR_ACK_RECV>>

InitRequests ==
    /\ ra_rmid = 0
    /\ ra_buf = {}
    /\ ra_requested = FALSE
    /\ ra_count = [id \in AckIds |-> 0]
    /\ ra_last = [id |-> 0, deliver |-> <<>>, ack |-> NoAck]

\* A sender of acks without a limit on the requests.
AckSentAlways(type, requested) == TRUE

\* gc_send_message_ack: a receipt is always sent; a request is sent unless
\* one was sent to this peer during the current second.
AckSent(type, requested) == type = GR_ACK_RECV \/ ~requested

\* The receiver handles the lossless packet `id`.
ra_handle_lossless_packet(id) ==
    LET r == HandleLossless(id, ra_rmid, ra_buf)
        sent == AckSent(r.ack[2], ra_requested)
        request == sent /\ r.ack[2] = GR_ACK_REQ
    IN  /\ ra_rmid' = r.rmid
        /\ ra_buf' = r.buf
        /\ ra_requested' = (ra_requested \/ request)
        /\ ra_count' = IF request /\ ra_count[r.ack[1]] < MaxRequests
                       THEN [ra_count EXCEPT ![r.ack[1]] = @ + 1] ELSE ra_count
        /\ ra_last' = [id |-> id, deliver |-> r.deliver,
                       ack |-> IF sent THEN r.ack ELSE NoAck]

\* The clock reaches the next second.
ra_tick ==
    /\ ra_requested' = FALSE
    /\ ra_count' = [id \in AckIds |-> 0]
    /\ UNCHANGED <<ra_rmid, ra_buf, ra_last>>

RequestsStep ==
    \/ \E id \in AckIds : ra_handle_lossless_packet(id)
    \/ ra_tick

\* ---------------------------------------------------------------------------
\* Part 13: joining.  A peer J connects to the peer R of a group: handshake,
\* invite request, exchange of peer info.  Each side holds the state of its
\* link to the other; the packets of a direction arrive in the order sent.
\* J may also leave out the invite request and send its peer info at once.
\* ---------------------------------------------------------------------------

JoinSides == {"J", "R"}

JoinPasswords == {"", "secret"}

JoinPeerLimits == {2, 3}

JoinNicks == {"alice", "bob"}

\* The group of R before J joins: R and one more confirmed peer, whose
\* nickname is "alice".
JoinMembers == {"R", "X"}

TakenNicks == {"alice"}

\* Group_Join_Rejected
GJ_GROUP_FULL == 0
GJ_INVALID_PASSWORD == 1
GJ_INVITE_FAILED == 2

Group_Join_Rejected == {GJ_GROUP_FULL, GJ_INVALID_PASSWORD, GJ_INVITE_FAILED}

\* JOIN_FAIL, the type the join_fail event reports, in the order of its
\* declaration.
JOIN_FAIL == <<"NAME_TAKEN", "PEER_LIMIT", "INVALID_PASSWORD", "UNKNOWN">>

\* The two ways the rejection type of the group code can become the type
\* of the event: by its number, or by its name.
JoinFailByNumber == [t \in Group_Join_Rejected |-> JOIN_FAIL[t + 1]]

JoinFailByName ==
    [t \in Group_Join_Rejected |->
        IF t = GJ_GROUP_FULL THEN "PEER_LIMIT"
        ELSE IF t = GJ_INVALID_PASSWORD THEN "INVALID_PASSWORD"
        ELSE "UNKNOWN"]

JoinFailConversions == {JoinFailByNumber, JoinFailByName}

NoJoinFail == [type |-> "none", checks |-> {}]

\* jn_state: side -> the state of its link to the other side.  jn_hist:
\* side -> the states its link has gone through.  jn_net: side -> the packets
\* it has sent that are not handled yet.  jn_peers: side -> its confirmed
\* peers among J and R.  jn_joined: side -> the peer_join upcalls it has
\* triggered.  jn_invited: R has validated an invite request of J, and J has
\* got the response.  jn_group: the password and the peer limit of the
\* group, and the password and nickname J joins with.  jn_fail: the type
\* the join_fail event of J reported, with the checks that had failed at R.
VARIABLES jn_state, jn_hist, jn_net, jn_peers, jn_joined, jn_invited, jn_group, jn_fail

jnvars == <<jn_state, jn_hist, jn_net, jn_peers, jn_joined, jn_invited, jn_group, jn_fail>>

OtherSide(s) == IF s = "J" THEN "R" ELSE "J"

InitJoin ==
    /\ jn_state = [s \in JoinSides |-> "Uninitialized"]
    /\ jn_hist = [s \in JoinSides |-> <<"Uninitialized">>]
    /\ jn_net = [s \in JoinSides |-> <<>>]
    /\ jn_peers = [s \in JoinSides |-> {}]
    /\ jn_joined = [s \in JoinSides |-> {}]
    /\ jn_invited = [s \in JoinSides |-> FALSE]
    /\ jn_group = [password |-> "", maxpeers |-> 3, join_password |-> "", join_nick |-> "bob"]
    /\ jn_fail = NoJoinFail

\* The link of side s takes the state `new`.
LinkTo(s, new) ==
    /\ jn_state' = [jn_state EXCEPT ![s] = new]
    /\ jn_hist' = [jn_hist EXCEPT ![s] = Append(@, new)]

\* The link of side s is discarded; the peer leaves the peer list.
LinkFailed(s) ==
    /\ jn_state' = [jn_state EXCEPT ![s] = "Failed"]
    /\ jn_hist' = [jn_hist EXCEPT ![s] = Append(@, "Failed")]
    /\ jn_peers' = [jn_peers EXCEPT ![s] = {}]
    /\ jn_invited' = [jn_invited EXCEPT ![s] = FALSE]

JoinIdle == \A s \in JoinSides : jn_state[s] = "Uninitialized" /\ jn_net[s] = <<>>

\* The founder sets the password and the peer limit of the group; R holds
\* itself and one more confirmed peer.
jn_founder_set(password, maxpeers) ==
    /\ JoinIdle
    /\ jn_group' = [jn_group EXCEPT !.password = password, !.maxpeers = maxpeers]
    /\ UNCHANGED <<jn_state, jn_hist, jn_net, jn_peers, jn_joined, jn_invited, jn_fail>>

\* J joins with a password and a nickname: it sends its handshake request.
jn_group_join(password, nick) ==
    /\ JoinIdle
    /\ jn_group' = [jn_group EXCEPT !.join_password = password, !.join_nick = nick]
    /\ LinkTo("J", "HandshakeSent")
    /\ jn_net' = [jn_net EXCEPT !["J"] = <<[type |-> "HANDSHAKE"]>>]
    /\ jn_fail' = NoJoinFail
    /\ UNCHANGED <<jn_peers, jn_joined, jn_invited>>

\* The checks of R that an invite request fails.
FailedChecks(password, nick) ==
    (IF password # jn_group.password THEN {"password"} ELSE {})
    \cup (IF Cardinality(JoinMembers) >= jn_group.maxpeers THEN {"limit"} ELSE {})
    \cup (IF nick \in TakenNicks THEN {"nick"} ELSE {})

\* The types R may reject the invite request with.  Group_Join_Rejected
\* has no type of its own for a nickname that is taken: the rejection
\* carries one of the types there are.
InviteRejections(password, nick) ==
    (IF "password" \in FailedChecks(password, nick) THEN {GJ_INVALID_PASSWORD} ELSE {})
    \cup (IF "limit" \in FailedChecks(password, nick) THEN {GJ_GROUP_FULL} ELSE {})
    \cup (IF "nick" \in FailedChecks(password, nick) THEN Group_Join_Rejected ELSE {})

\* A responder that takes peer info in every state of the link.
PeerInfoAcceptedAlways(state, invited) == state \notin {"Uninitialized", "Failed"}

\* Peer info is taken from a peer whose handshake is acknowledged and whose
\* invite request has been validated (R) or answered (J).
PeerInfoAccepted(state, invited) == state = "HandshakeAcked" /\ invited

\* Side s handles the next packet of the other side.
jn_handle_packet(s) ==
    LET o == OtherSide(s)
        m == Head(jn_net[o])
        reply(packets) == [jn_net EXCEPT ![o] = Tail(@), ![s] = @ \o packets]
        drop == /\ jn_net' = [jn_net EXCEPT ![o] = Tail(@)]
                /\ UNCHANGED <<jn_state, jn_hist, jn_peers, jn_invited, jn_fail>>
    IN  /\ jn_net[o] # <<>>
        /\ UNCHANGED <<jn_joined, jn_group>>
        /\ IF m.type = "HANDSHAKE" /\ s = "R" /\ jn_state[s] = "Uninitialized"
           THEN /\ LinkTo(s, "HandshakeSent")
                /\ jn_net' = reply(<<[type |-> "HANDSHAKE"]>>)
                /\ UNCHANGED <<jn_peers, jn_invited, jn_fail>>
           ELSE IF m.type = "HANDSHAKE" /\ s = "J" /\ jn_state[s] = "HandshakeSent"
           THEN /\ LinkTo(s, "HandshakeAcked")
                /\ \/ jn_net' = reply(<<[type |-> "HS_RESPONSE_ACK"],
                                        [type |-> "INVITE_REQUEST",
                                         password |-> jn_group.join_password,
                                         nick |-> jn_group.join_nick]>>)
                   \/ jn_net' = reply(<<[type |-> "HS_RESPONSE_ACK"],
                                        [type |-> "PEER_INFO_RESPONSE"]>>)
                   \/ jn_net' = reply(<<[type |-> "PEER_INFO_RESPONSE"]>>)
                /\ UNCHANGED <<jn_peers, jn_invited, jn_fail>>
           ELSE IF m.type = "HS_RESPONSE_ACK" /\ jn_state[s] = "HandshakeSent"
           THEN /\ LinkTo(s, "HandshakeAcked")
                /\ jn_net' = reply(<<>>)
                /\ UNCHANGED <<jn_peers, jn_invited, jn_fail>>
           ELSE IF m.type = "INVITE_REQUEST" /\ jn_state[s] = "HandshakeAcked"
           THEN IF FailedChecks(m.password, m.nick) = {}
                THEN /\ jn_invited' = [jn_invited EXCEPT ![s] = TRUE]
                     /\ jn_net' = reply(<<[type |-> "INVITE_RESPONSE"]>>)
                     /\ UNCHANGED <<jn_state, jn_hist, jn_peers, jn_fail>>
                ELSE /\ LinkFailed(s)
                     /\ \E reason \in InviteRejections(m.password, m.nick) :
                            jn_net' = reply(<<[type |-> "INVITE_RESPONSE_REJECT",
                                               reason |-> reason,
                                               checks |-> FailedChecks(m.password, m.nick)]>>)
                     /\ UNCHANGED jn_fail
           ELSE IF m.type = "INVITE_RESPONSE" /\ jn_state[s] = "HandshakeAcked"
           THEN /\ jn_invited' = [jn_invited EXCEPT ![s] = TRUE]
                /\ jn_net' = reply(<<[type |-> "PEER_INFO_REQUEST"],
                                     [type |-> "PEER_INFO_RESPONSE"]>>)
                /\ UNCHANGED <<jn_state, jn_hist, jn_peers, jn_fail>>
           ELSE IF m.type = "INVITE_RESPONSE_REJECT"
                   /\ jn_state[s] \notin {"Uninitialized", "Failed"}
           THEN /\ LinkFailed(s)
                /\ \E conversion \in JoinFailConversions :
                       jn_fail' = [type |-> conversion[m.reason], checks |-> m.checks]
                /\ jn_net' = reply(<<>>)
           ELSE IF m.type = "PEER_INFO_REQUEST" /\ PeerInfoAccepted(jn_state[s], jn_invited[s])
           THEN /\ jn_net' = reply(<<[type |-> "PEER_INFO_RESPONSE"]>>)
                /\ UNCHANGED <<jn_state, jn_hist, jn_peers, jn_invited, jn_fail>>
           ELSE IF m.type = "PEER_INFO_RESPONSE" /\ PeerInfoAccepted(jn_state[s], jn_invited[s])
           THEN /\ LinkTo(s, "PeerInfoExchanged")
                /\ jn_net' = reply(<<>>)
                /\ UNCHANGED <<jn_peers, jn_invited, jn_fail>>
           ELSE drop

\* The peer whose info has been exchanged is confirmed: it counts as a peer
\* from now on and the peer_join upcall is triggered.
jn_peer_confirm(s) ==
    /\ jn_state[s] = "PeerInfoExchanged"
    /\ LinkTo(s, "Confirmed")
    /\ jn_peers' = [jn_peers EXCEPT ![s] = {OtherSide(s)}]
    /\ jn_joined' = [jn_joined EXCEPT ![s] = @ \cup {OtherSide(s)}]
    /\ UNCHANGED <<jn_net, jn_invited, jn_group, jn_fail>>

\* A link that is not confirmed makes no progress and is discarded.
jn_unconfirmed_timeout(s) ==
    /\ jn_state[s] \notin {"Uninitialized", "Confirmed", "Failed"}
    /\ LinkFailed(s)
    /\ UNCHANGED <<jn_net, jn_joined, jn_group, jn_fail>>

\* Both sides have given the link up and nothing is in flight: the next
\* attempt starts with new links.
jn_new_attempt ==
    /\ \A s \in JoinSides : jn_state[s] \in {"Failed", "Uninitialized"}
    /\ \E s \in JoinSides : jn_state[s] = "Failed"
    /\ \A s \in JoinSides : jn_net[s] = <<>>
    /\ jn_state' = [s \in JoinSides |-> "Uninitialized"]
    /\ jn_hist' = [s \in JoinSides |-> <<"Uninitialized">>]
    /\ jn_joined' = [s \in JoinSides |-> {}]
    /\ UNCHANGED <<jn_net, jn_peers, jn_invited, jn_group, jn_fail>>

JoinStep ==
    \/ \E pw \in JoinPasswords, n \in JoinPeerLimits : jn_founder_set(pw, n)
    \/ \E pw \in JoinPasswords, nick \in JoinNicks : jn_group_join(pw, nick)
    \/ \E s \in JoinSides : jn_handle_packet(s)
    \/ \E s \in JoinSides : jn_peer_confirm(s)
    \/ \E s \in JoinSides : jn_unconfirmed_timeout(s)
    \/ jn_new_attempt

\* ---------------------------------------------------------------------------
\* Part 14: peer timeouts.  A peer holds a link to each of the peers X and
\* Y.  The clock advances by seconds; with every second the timer loop
\* removes the peers that have timed out.
\* ---------------------------------------------------------------------------

GC_PING_TIMEOUT == 12

GC_UNCONFIRMED_PEER_TIMEOUT == GC_PING_TIMEOUT

\* A timeout of confirmed peers of six ping timeouts.
ConfirmedTimeoutShort == GC_PING_TIMEOUT * 6

GC_CONFIRMED_PEER_TIMEOUT == GC_PING_TIMEOUT * 6 + 10

TimeoutPeers == {"X", "Y"}

\* pt_link: peer -> the state of the link to it (none, unconfirmed,
\* confirmed).  pt_age: peer -> the seconds since its last ping was
\* received (confirmed) or since its link last made progress (unconfirmed).
\* pt_list: the peer list.  pt_listed: peer -> its link has been in the peer
\* list.  pt_exit: the peer_exit upcalls of the last step.  pt_gone: the
\* links the last step discarded, with their age and state at that time.
VARIABLES pt_link, pt_age, pt_list, pt_listed, pt_exit, pt_gone

ptvars == <<pt_link, pt_age, pt_list, pt_listed, pt_exit, pt_gone>>

InitTimeouts ==
    /\ pt_link = [p \in TimeoutPeers |-> IF p = "X" THEN "confirmed" ELSE "none"]
    /\ pt_age = [p \in TimeoutPeers |-> 0]
    /\ pt_list = {"X"}
    /\ pt_listed = [p \in TimeoutPeers |-> p = "X"]
    /\ pt_exit = {}
    /\ pt_gone = {}

\* A timer that lets a peer live one second longer.
PeerTimedOutLate(age, timeout) == age > timeout

\* mono_time_is_timeout: `timeout` seconds have passed since the timestamp.
PeerTimedOut(age, timeout) == age >= timeout

\* The links that have timed out when the ages are `age`.
TimedOut(age) ==
    {p \in TimeoutPeers :
        \/ pt_link[p] = "confirmed" /\ PeerTimedOut(age[p], GC_CONFIRMED_PEER_TIMEOUT)
        \/ pt_link[p] = "unconfirmed" /\ PeerTimedOut(age[p], GC_UNCONFIRMED_PEER_TIMEOUT)}

\* A second passes and the timer loop runs: a confirmed peer that has timed
\* out leaves the peer list with exit type TIMEOUT, an unconfirmed link
\* that has timed out is discarded.
do_gc ==
    LET age == [p \in TimeoutPeers |-> IF pt_link[p] = "none" THEN 0 ELSE pt_age[p] + 1]
        out == TimedOut(age)
    IN  /\ \E p \in TimeoutPeers : pt_link[p] # "none"
        /\ pt_link' = [p \in TimeoutPeers |-> IF p \in out THEN "none" ELSE pt_link[p]]
        /\ pt_age' = [p \in TimeoutPeers |-> IF p \in out THEN 0 ELSE age[p]]
        /\ pt_list' = pt_list \ out
        /\ pt_exit' = {[peer |-> p, type |-> "TIMEOUT"] : p \in out \cap pt_list}
        /\ pt_gone' = {[peer |-> p, age |-> age[p], link |-> pt_link[p]] : p \in out}
        /\ UNCHANGED pt_listed

\* A ping of the confirmed peer p is received.
pt_handle_ping(p) ==
    /\ pt_link[p] = "confirmed"
    /\ pt_age[p] > 0
    /\ pt_age' = [pt_age EXCEPT ![p] = 0]
    /\ pt_exit' = {}
    /\ pt_gone' = {}
    /\ UNCHANGED <<pt_link, pt_list, pt_listed>>

\* A handshake with peer p makes a new, unconfirmed link.
pt_handshake(p) ==
    /\ pt_link[p] = "none"
    /\ pt_link' = [pt_link EXCEPT ![p] = "unconfirmed"]
    /\ pt_age' = [pt_age EXCEPT ![p] = 0]
    /\ pt_listed' = [pt_listed EXCEPT ![p] = FALSE]
    /\ pt_exit' = {}
    /\ pt_gone' = {}
    /\ UNCHANGED pt_list

\* The unconfirmed link to peer p is confirmed after the exchange of peer
\* info: the peer enters the peer list.
pt_peer_confirm(p) ==
    /\ pt_link[p] = "unconfirmed"
    /\ pt_link' = [pt_link EXCEPT ![p] = "confirmed"]
    /\ pt_age' = [pt_age EXCEPT ![p] = 0]
    /\ pt_list' = pt_list \cup {p}
    /\ pt_listed' = [pt_listed EXCEPT ![p] = TRUE]
    /\ pt_exit' = {}
    /\ pt_gone' = {}

\* The confirmed peer p quits the group.
pt_peer_quit(p) ==
    /\ pt_link[p] = "confirmed"
    /\ pt_link' = [pt_link EXCEPT ![p] = "none"]
    /\ pt_age' = [pt_age EXCEPT ![p] = 0]
    /\ pt_list' = pt_list \ {p}
    /\ pt_exit' = {[peer |-> p, type |-> "QUIT"]}
    /\ pt_gone' = {}
    /\ UNCHANGED pt_listed

TimeoutsStep ==
    \/ do_gc
    \/ \E p \in TimeoutPeers : pt_handle_ping(p)
    \/ \E p \in TimeoutPeers : pt_handshake(p)
    \/ \E p \in TimeoutPeers : pt_peer_confirm(p)
    \/ \E p \in TimeoutPeers : pt_peer_quit(p)

\* ---------------------------------------------------------------------------
\* Part 15: the order of the state packets.  The founder B holds the peers
\* A, C and D; it changes the moderator list, the sanctions list and the
\* topic.  A loses its connection now and then and misses what B sends
\* meanwhile; back in the group it asks B for what its ping shows it lacks.
\* The link of each direction delivers its packets in the order sent.
\* ---------------------------------------------------------------------------

MaxRespVersion == 1

MaxModChanges == 2

MaxRespLink == 3

RespFounder == "B"
RespPeer == "A"
RespSides == {RespFounder, RespPeer}

\* sr_state, sr_mods, sr_sanctions, sr_topic: side -> the shared state, the
\* moderator list, the sanctions list with its credentials and the topic
\* version it holds.  sr_peers: side -> its confirmed peers.  sr_known: the
\* peers A has an announce of.  sr_net: sender -> its packets in flight, in
\* order.  sr_connected: A is connected.  sr_pending: A waits for the
\* response to a sync request.  sr_sent: the packets the last step put on a
\* link, and the flags of the sync request they respond to.  sr_dropped: the
\* type of the packet A has dropped in the last step, as it did not validate.
VARIABLES sr_state, sr_mods, sr_sanctions, sr_topic, sr_peers, sr_known, sr_net,
          sr_connected, sr_pending, sr_sent, sr_dropped

srvars == <<sr_state, sr_mods, sr_sanctions, sr_topic, sr_peers, sr_known, sr_net,
            sr_connected, sr_pending, sr_sent, sr_dropped>>

NothingSent == [packets |-> <<>>, flags |-> {}, response |-> FALSE]

InitResponse ==
    /\ sr_state = [s \in RespSides |-> InitSharedState]
    /\ sr_mods = [s \in RespSides |-> <<>>]
    /\ sr_sanctions = [s \in RespSides |->
                         [list |-> {}, creds |-> [version |-> 0, modifier |-> FounderKey]]]
    /\ sr_topic = [s \in RespSides |-> 0]
    /\ sr_peers = [s \in RespSides |-> IF s = RespFounder THEN {"A", "C"} ELSE {"B", "C"}]
    /\ sr_known = {}
    /\ sr_net = [s \in RespSides |-> <<>>]
    /\ sr_connected = TRUE
    /\ sr_pending = FALSE
    /\ sr_sent = NothingSent
    /\ sr_dropped = "none"

RespTopicPacket(version) == [type |-> "TOPIC", version |-> version]
RespSanctionsPacket(held) == [type |-> "SANCTIONS_LIST", sanctions |-> held]
RespSyncRequest(flags) == [type |-> "SYNC_REQUEST", flags |-> flags]

\* B sends `packets` to A when A is connected.
RespSend(packets) ==
    /\ Len(sr_net[RespFounder]) + Len(packets) <= MaxRespLink
    /\ sr_net' = [sr_net EXCEPT ![RespFounder] = IF sr_connected THEN @ \o packets ELSE @]
    /\ sr_sent' = [packets |-> IF sr_connected THEN packets ELSE <<>>,
                   flags |-> {}, response |-> FALSE]

\* A key is the founder's or in the moderator list.
RespKeyOk(mods, key) ==
    key = FounderKey \/ \E i \in 1..Len(mods) : mods[i] = key

\* The sanctions list validates against the moderator list `mods` and the
\* credentials held.
RespSanctionsOk(mods, held, new) ==
    /\ new.creds.version >= held.creds.version
    /\ RespKeyOk(mods, new.creds.modifier)
    /\ \A e \in new.list : RespKeyOk(mods, e.setter)

\* The founder adds or removes a moderator.  Before it removes one it signs
\* the sanctions of that moderator again, makes new credentials and sends
\* the list; then the new shared state, then the new moderator list.
sr_founder_set_moderator(key) ==
    LET f == RespFounder
        add_mod == ~RespKeyOk(sr_mods[f], key)
        list == IF add_mod THEN mod_list_add_entry(sr_mods[f], key)
                ELSE mod_list_remove_entry(sr_mods[f], key)
        ss == sign_gc_shared_state(
                [sr_state[f].fields EXCEPT !.version = @ + 1,
                                           !.mod_list_hash = mod_list_make_hash(list)])
        resign == ~add_mod
        new_list == IF resign
                     THEN [list |-> sanctions_list_replace_sig(sr_sanctions[f].list, key),
                           creds |-> sanctions_list_make_creds(sr_sanctions[f].creds, FounderKey)]
                     ELSE sr_sanctions[f]
    IN  /\ sr_state[f].fields.version <= MaxModChanges
        /\ sr_mods' = [sr_mods EXCEPT ![f] = list]
        /\ sr_state' = [sr_state EXCEPT ![f] = ss]
        /\ sr_sanctions' = [sr_sanctions EXCEPT ![f] = new_list]
        /\ RespSend((IF resign THEN <<RespSanctionsPacket(new_list)>> ELSE <<>>)
                    \o <<SsPacket(ss), ModListPacket(list)>>)
        /\ sr_dropped' = "none"
        /\ UNCHANGED <<sr_topic, sr_peers, sr_known, sr_connected, sr_pending>>

\* The founder or a moderator sets or unsets the observer X: the founder
\* holds the new list and sends it on.
sr_set_observer(key) ==
    LET f == RespFounder
        entry == sanctions_list_make_entry("X", key)
        new_list == [list |-> IF sr_sanctions[f].list = {} THEN {entry} ELSE {},
                      creds |-> sanctions_list_make_creds(sr_sanctions[f].creds, key)]
    IN  /\ RespKeyOk(sr_mods[f], key)
        /\ sr_sanctions[f].creds.version < MaxRespVersion
        /\ sr_sanctions' = [sr_sanctions EXCEPT ![f] = new_list]
        /\ RespSend(<<RespSanctionsPacket(new_list)>>)
        /\ sr_dropped' = "none"
        /\ UNCHANGED <<sr_state, sr_mods, sr_topic, sr_peers, sr_known, sr_connected, sr_pending>>

\* The founder sets the topic.
sr_set_topic ==
    /\ sr_topic[RespFounder] < MaxRespVersion
    /\ sr_topic' = [sr_topic EXCEPT ![RespFounder] = @ + 1]
    /\ RespSend(<<RespTopicPacket(sr_topic[RespFounder] + 1)>>)
    /\ sr_dropped' = "none"
    /\ UNCHANGED <<sr_state, sr_mods, sr_sanctions, sr_peers, sr_known, sr_connected, sr_pending>>

\* Peer D joins the group at B, or leaves it.
sr_peer_change ==
    /\ sr_peers' = [sr_peers EXCEPT ![RespFounder] =
                        IF "D" \in @ THEN @ \ {"D"} ELSE @ \cup {"D"}]
    /\ sr_sent' = NothingSent
    /\ sr_dropped' = "none"
    /\ UNCHANGED <<sr_state, sr_mods, sr_sanctions, sr_topic, sr_known, sr_net,
                   sr_connected, sr_pending>>

\* A loses its connection (what is in flight is lost), or is back.
sr_connection_change ==
    /\ sr_connected' = ~sr_connected
    /\ sr_net' = [s \in RespSides |-> <<>>]
    /\ sr_pending' = FALSE
    /\ sr_sent' = NothingSent
    /\ sr_dropped' = "none"
    /\ UNCHANGED <<sr_state, sr_mods, sr_sanctions, sr_topic, sr_peers, sr_known>>

sr_ping_data(s) ==
    PingData(s, sr_peers[s],
             [shared_state |-> sr_state[s].fields.version,
              sanctions_creds |-> sr_sanctions[s].creds.version,
              topic |-> sr_topic[s]])

\* A handles a ping of B: when the ping shows it to be behind and nothing
\* of B is on its way, it sends a sync request.
sr_handle_ping ==
    LET flags == SyncFlags(sr_ping_data(RespPeer), sr_ping_data(RespFounder)) IN
        /\ sr_connected
        /\ ~sr_pending
        /\ sr_net[RespFounder] = <<>>
        /\ flags # {}
        /\ sr_net' = [sr_net EXCEPT ![RespPeer] = Append(@, RespSyncRequest(flags))]
        /\ sr_pending' = TRUE
        /\ sr_sent' = [packets |-> <<RespSyncRequest(flags)>>, flags |-> {}, response |-> FALSE]
        /\ sr_dropped' = "none"
        /\ UNCHANGED <<sr_state, sr_mods, sr_sanctions, sr_topic, sr_peers, sr_known, sr_connected>>

\* A response that sends the moderator list first.
RespSyncResponseModsFirst(flags) ==
    (IF "STATE" \in flags
     THEN <<ModListPacket(sr_mods[RespFounder]), SsPacket(sr_state[RespFounder]),
            RespSanctionsPacket(sr_sanctions[RespFounder])>>
     ELSE <<>>)
    \o (IF "TOPIC" \in flags THEN <<RespTopicPacket(sr_topic[RespFounder])>> ELSE <<>>)

\* What B sends in response to a sync request with `flags`.
RespSyncResponse(flags) ==
    (IF "STATE" \in flags
     THEN <<SsPacket(sr_state[RespFounder]), ModListPacket(sr_mods[RespFounder]),
            RespSanctionsPacket(sr_sanctions[RespFounder])>>
     ELSE <<>>)
    \o (IF "TOPIC" \in flags THEN <<RespTopicPacket(sr_topic[RespFounder])>> ELSE <<>>)
    \o (IF "PEER_LIST" \in flags
        THEN LET others == SeqOfSet(sr_peers[RespFounder] \ {RespPeer}) IN
             [i \in 1..Len(others) |-> SyncResponsePacket(others[i])]
        ELSE <<>>)

\* B handles the sync request of A.
sr_handle_sync_request ==
    /\ sr_net[RespPeer] # <<>>
    /\ LET m == Head(sr_net[RespPeer])
           response == RespSyncResponse(m.flags)
       IN  /\ sr_net' = [sr_net EXCEPT ![RespPeer] = Tail(@), ![RespFounder] = @ \o response]
           /\ sr_sent' = [packets |-> response, flags |-> m.flags, response |-> TRUE]
    /\ sr_dropped' = "none"
    /\ UNCHANGED <<sr_state, sr_mods, sr_sanctions, sr_topic, sr_peers, sr_known,
                   sr_connected, sr_pending>>

\* A handles the next packet of B.
sr_handle_packet ==
    /\ sr_net[RespFounder] # <<>>
    /\ LET m == Head(sr_net[RespFounder])
           a == RespPeer
           ok == CASE m.type = "SHARED_STATE" ->
                        /\ crypto_sign_verify(ChatId, m.ss.sig, m.ss.fields)
                        /\ SharedStateVersionOk(m.ss.fields.version, sr_state[a].fields.version)
                   [] m.type = "MOD_LIST" -> mod_list_verify(m.list, sr_state[a])
                   [] m.type = "SANCTIONS_LIST" ->
                        RespSanctionsOk(sr_mods[a], sr_sanctions[a], m.sanctions)
                   [] m.type = "TOPIC" -> m.version >= sr_topic[a]
                   [] OTHER -> TRUE
       IN  /\ sr_state' = IF m.type = "SHARED_STATE" /\ ok
                          THEN [sr_state EXCEPT ![a] = m.ss] ELSE sr_state
           /\ sr_mods' = IF m.type = "MOD_LIST" /\ ok
                         THEN [sr_mods EXCEPT ![a] = m.list] ELSE sr_mods
           /\ sr_sanctions' = IF m.type = "SANCTIONS_LIST" /\ ok
                              THEN [sr_sanctions EXCEPT ![a] = m.sanctions] ELSE sr_sanctions
           /\ sr_topic' = IF m.type = "TOPIC" /\ ok
                          THEN [sr_topic EXCEPT ![a] = m.version] ELSE sr_topic
           /\ sr_known' = IF m.type = "SYNC_RESPONSE" /\ m.announce \notin sr_peers[a]
                          THEN sr_known \cup {m.announce} ELSE sr_known
           /\ sr_dropped' = IF ok THEN "none" ELSE m.type
    /\ sr_net' = [sr_net EXCEPT ![RespFounder] = Tail(@)]
    /\ sr_pending' = (sr_pending /\ Len(sr_net[RespFounder]) > 1)
    /\ sr_sent' = NothingSent
    /\ UNCHANGED <<sr_peers, sr_connected>>

\* A completes the handshake with a peer it has an announce of, or drops a
\* confirmed peer that B does not hold.
sr_peer_list_repair ==
    /\ sr_connected
    /\ \/ \E x \in sr_known :
            /\ sr_peers' = [sr_peers EXCEPT ![RespPeer] = @ \cup {x}]
            /\ sr_known' = sr_known \ {x}
       \/ \E x \in sr_peers[RespPeer] \ (sr_peers[RespFounder] \cup {RespFounder}) :
            /\ sr_peers' = [sr_peers EXCEPT ![RespPeer] = @ \ {x}]
            /\ sr_known' = sr_known
    /\ sr_sent' = NothingSent
    /\ sr_dropped' = "none"
    /\ UNCHANGED <<sr_state, sr_mods, sr_sanctions, sr_topic, sr_net, sr_connected, sr_pending>>

ResponseStep ==
    \/ \E k \in ModKeys : sr_founder_set_moderator(k)
    \/ \E k \in ModKeys \cup {FounderKey} : sr_set_observer(k)
    \/ sr_set_topic
    \/ sr_peer_change
    \/ sr_connection_change
    \/ sr_handle_ping
    \/ sr_handle_sync_request
    \/ sr_handle_packet
    \/ sr_peer_list_repair

\* ---------------------------------------------------------------------------
\* Part 16: the receipt of a topic.  Peer P holds the topic, the topic lock,
\* its moderator list and its sanctions list.  The founder F, the peer M (a
\* moderator, unless demoted) and the peer U (a user, unless made observer)
\* send TOPIC packets of any version, also with a signature made by another
\* key or made over other data; the group state P holds changes while a
\* packet is on its way.
\* ---------------------------------------------------------------------------

MaxTopicInfoVersion == 2

TopicSetters == {"F", "M", "U"}

TopicTexts == {"one", "two"}

SignatureKinds == {"valid", "other_key", "other_data"}

\* tp_topic: the topic_info P holds.  tp_lock: the topic lock of the shared
\* state P holds.  tp_mods, tp_observers: the peers in the moderator list
\* and in the sanctions list of P.  tp_net: the TOPIC packets on their way
\* to P.  tp_last: the packet P handled in the last step, the topic_info it
\* held before, and whether the topic upcall was triggered.
VARIABLES tp_topic, tp_lock, tp_mods, tp_observers, tp_net, tp_last

tpvars == <<tp_topic, tp_lock, tp_mods, tp_observers, tp_net, tp_last>>

NoTopicHandled == [handled |-> FALSE]

InitTopic ==
    /\ tp_topic = sign_gc_topic(0, "one", "F")
    /\ tp_lock = "TL_ENABLED"
    /\ tp_mods = {"M"}
    /\ tp_observers = {}
    /\ tp_net = <<>>
    /\ tp_last = NoTopicHandled

\* The role P holds for a peer.
TopicRole(p) ==
    IF p = "F" THEN "FOUNDER"
    ELSE IF p \in tp_mods THEN "MODERATOR"
    ELSE IF p \in tp_observers THEN "OBSERVER"
    ELSE "USER"

\* A topic_info with the setter's key and a signature of the given kind.
TopicInfo(setter, version, topic, kind) ==
    [version |-> version, topic |-> topic, setter |-> setter,
     sig |-> IF kind = "valid" THEN crypto_sign(GSigKey(setter), <<version, topic>>)
             ELSE IF kind = "other_key" THEN crypto_sign(GSigKey("X"), <<version, topic>>)
             ELSE crypto_sign(GSigKey(setter), <<version, "old">>)]

\* A TOPIC with these contents is sent to P.
tp_send_topic(setter, version, topic, kind) ==
    /\ tp_net = <<>>
    /\ tp_net' = <<TopicInfo(setter, version, topic, kind)>>
    /\ tp_last' = NoTopicHandled
    /\ UNCHANGED <<tp_topic, tp_lock, tp_mods, tp_observers>>

\* P handles a MOD_LIST that adds or removes the moderator M.
tp_mod_list_change ==
    /\ tp_mods' = IF "M" \in tp_mods THEN {} ELSE {"M"}
    /\ tp_last' = NoTopicHandled
    /\ UNCHANGED <<tp_topic, tp_lock, tp_observers, tp_net>>

\* P handles a sanctions change that makes U an observer, or a user again.
tp_observer_change ==
    /\ tp_observers' = IF "U" \in tp_observers THEN {} ELSE {"U"}
    /\ tp_last' = NoTopicHandled
    /\ UNCHANGED <<tp_topic, tp_lock, tp_mods, tp_net>>

\* P handles a shared state with the other topic lock.
tp_topic_lock_change ==
    /\ tp_lock' = IF tp_lock = "TL_ENABLED" THEN "TL_DISABLED" ELSE "TL_ENABLED"
    /\ tp_last' = NoTopicHandled
    /\ UNCHANGED <<tp_topic, tp_mods, tp_observers, tp_net>>

\* A receiver that does not verify the signature.
TopicAcceptedUnsigned(info, current, role_of_setter, topic_lock) ==
    /\ TopicSetterOk(role_of_setter, topic_lock)
    /\ TopicVersionOk(info.version, current.version)

\* The three checks of the receiver: the setter may set the topic, the
\* signature verifies under the setter's key, the version is not older than
\* the current one.
TopicAccepted(info, current, role_of_setter, topic_lock) ==
    /\ TopicSetterOk(role_of_setter, topic_lock)
    /\ crypto_sign_verify(GSigKey(info.setter), info.sig, <<info.version, info.topic>>)
    /\ TopicVersionOk(info.version, current.version)

\* P handles the TOPIC on its way.
tp_handle_topic ==
    /\ tp_net # <<>>
    /\ LET info == Head(tp_net)
           ok == TopicAccepted(info, tp_topic, TopicRole(info.setter), tp_lock)
       IN  /\ tp_topic' = IF ok THEN info ELSE tp_topic
           /\ tp_last' = [handled |-> TRUE, info |-> info, before |-> tp_topic,
                          upcall |-> ok /\ info.topic # tp_topic.topic]
    /\ tp_net' = Tail(tp_net)
    /\ UNCHANGED <<tp_lock, tp_mods, tp_observers>>

TopicStep ==
    \/ \E s \in TopicSetters, v \in 0..MaxTopicInfoVersion, t \in TopicTexts,
          k \in SignatureKinds : tp_send_topic(s, v, t, k)
    \/ tp_mod_list_change
    \/ tp_observer_change
    \/ tp_topic_lock_change
    \/ tp_handle_topic

\* ---------------------------------------------------------------------------
\* Part 17: the peer list.  The peers A and B each hold their peer list as an
\* array of entries, themselves first, the others in the order of their
\* handshakes; an entry is confirmed after the exchange of peer info.  The
\* checksum and the peer count of a ping are computed from the array.
\* ---------------------------------------------------------------------------

ListOwners == {"A", "B"}

ListPeers == {"A", "B", "C", "D"}

\* pl_list: owner -> its peer list.
VARIABLES pl_list

plvars == <<pl_list>>

ListEntry(p, confirmed) == [peer |-> p, confirmed |-> confirmed]

InitList ==
    pl_list = [o \in ListOwners |-> <<ListEntry(o, TRUE)>>]

ListIndex(o, p) == {i \in 1..Len(pl_list[o]) : pl_list[o][i].peer = p}

\* A handshake with peer p adds an unconfirmed entry at the end of the array.
pl_peer_add(o, p) ==
    /\ ListIndex(o, p) = {}
    /\ pl_list' = [pl_list EXCEPT ![o] = Append(@, ListEntry(p, FALSE))]

\* The entry of peer p is confirmed.
pl_peer_confirm(o, p) ==
    /\ \E i \in ListIndex(o, p) :
          /\ ~pl_list[o][i].confirmed
          /\ pl_list' = [pl_list EXCEPT ![o][i].confirmed = TRUE]

\* The entry of peer p is deleted: the entries behind it move up.
pl_peer_delete(o, p) ==
    /\ p # o
    /\ ListIndex(o, p) # {}
    /\ pl_list' = [pl_list EXCEPT ![o] = SelectSeq(@, LAMBDA e : e.peer # p)]

\* A checksum and a count over every entry, confirmed or not.
RECURSIVE ListChecksumAll(_)
ListChecksumAll(list) ==
    IF list = <<>> THEN 0
    ELSE (KeySum(PublicKey[Head(list).peer]) + ListChecksumAll(Tail(list))) % 65536

\* The checksum of a peer list: the 16-bit sum over the keys of its
\* confirmed entries, taken in the order of the array.
RECURSIVE ListChecksum(_)
ListChecksum(list) ==
    IF list = <<>> THEN 0
    ELSE ((IF Head(list).confirmed THEN KeySum(PublicKey[Head(list).peer]) ELSE 0)
          + ListChecksum(Tail(list))) % 65536

\* The peer count of a ping: the confirmed entries, the own one left out.
ListPeerCount(list) ==
    Cardinality({i \in 2..Len(list) : list[i].confirmed})

ListStep ==
    \/ \E o \in ListOwners, p \in ListPeers : pl_peer_add(o, p)
    \/ \E o \in ListOwners, p \in ListPeers : pl_peer_confirm(o, p)
    \/ \E o \in ListOwners, p \in ListPeers : pl_peer_delete(o, p)

\* ---------------------------------------------------------------------------
\* Part 18: the onion announce table of a DHT node (onion_announce.c).  The
\* node handles announce requests of the old and of the new format, group
\* announce requests and data requests; the clock advances between them.
\* Keys are one byte long; the close nodes of a response are left out.
\* ---------------------------------------------------------------------------

\* Size of the table (the header that defines it is not part of the sources).
ONION_ANNOUNCE_MAX_ENTRIES == 2

\* Lifetime of an entry and length of a ping id window, in clock ticks.
ONION_ANNOUNCE_TIMEOUT == 2

PING_ID_TIMEOUT == ONION_ANNOUNCE_TIMEOUT

\* The clock stops here.
MaxOnionTime == ONION_ANNOUNCE_TIMEOUT + 2

\* The DHT public key of this node, and the keys that announce themselves.
SelfKey == 2

OnionKeys == {1, 3, 4}

\* The key that is searched.
SearchKeys == {3}

OnionSources == {"ip1", "ip2"}

DataKeys == {"dk1", "dk2"}

OnionReturn(ip_port) == <<"ret", ip_port>>

OnionSlots == 0..(ONION_ANNOUNCE_MAX_ENTRIES - 1)

\* oa_entries: the table; oa_time: mono_time_get; oa_last: the kind of the
\* packet handled last, whether its ping id matched, the index found, and
\* the key of the live entry that was overwritten.  The packets a handler sends leave the node and are not
\* kept.
VARIABLES oa_entries, oa_time, oa_last

oavars == <<oa_entries, oa_time, oa_last>>

OnionLast(packet, accepted, index, overwritten) ==
    [packet |-> packet, accepted |-> accepted, index |-> index,
     overwritten |-> overwritten]

\* An entry of the table after calloc.
ZeroEntry ==
    [public_key |-> 0, ret_ip_port |-> "none", ret |-> <<>>,
     data_public_key |-> "none", announce_time |-> 0]

\* The clock of a running node is far from zero: the zeroed entries have
\* timed out.
InitOnion ==
    /\ oa_entries = [i \in OnionSlots |-> ZeroEntry]
    /\ oa_time = ONION_ANNOUNCE_TIMEOUT
    /\ oa_last = OnionLast("none", FALSE, -1, 0)

mono_time_is_timeout(now, timestamp, timeout) == timestamp + timeout <= now

RECURSIVE Xor(_, _)
Xor(a, b) ==
    IF a = 0 THEN b
    ELSE IF b = 0 THEN a
    ELSE ((a + b) % 2) + 2 * Xor(a \div 2, b \div 2)

\* 1 if pk1 is closer to pk than pk2, 2 if pk2 is closer, 0 if equal.
id_closest(pk, pk1, pk2) ==
    LET distance1 == Xor(pk, pk1)
        distance2 == Xor(pk, pk2)
    IN  IF distance1 < distance2 THEN 1
        ELSE IF distance1 > distance2 THEN 2
        ELSE 0

ZeroPingId == [ping_time |-> 0, public_key |-> 0, ret_ip_port |-> "none"]

\* A ping id that is not bound to the address of the sender.
generate_ping_id_any_source(ping_time, public_key, ret_ip_port) ==
    [ping_time |-> ping_time \div PING_ID_TIMEOUT, public_key |-> public_key,
     ret_ip_port |-> "any"]

\* The hash over the secret of the node, the window of ping_time, the key and
\* the address.
generate_ping_id(ping_time, public_key, ret_ip_port) ==
    [ping_time |-> ping_time \div PING_ID_TIMEOUT, public_key |-> public_key,
     ret_ip_port |-> ret_ip_port]

onion_ping_id_eq(a, b) == a = b

in_entries(entries, now, public_key) ==
    LET found == {i \in OnionSlots :
                    /\ ~mono_time_is_timeout(now, entries[i].announce_time, ONION_ANNOUNCE_TIMEOUT)
                    /\ entries[i].public_key = public_key}
    IN  IF found = {} THEN -1
        ELSE CHOOSE i \in found : \A j \in found : i <= j

cmp_entry(now, entry1, entry2) ==
    LET t1 == mono_time_is_timeout(now, entry1.announce_time, ONION_ANNOUNCE_TIMEOUT)
        t2 == mono_time_is_timeout(now, entry2.announce_time, ONION_ANNOUNCE_TIMEOUT)
        closest == id_closest(SelfKey, entry1.public_key, entry2.public_key)
    IN  IF t1 /\ t2 THEN 0
        ELSE IF t1 THEN -1
        ELSE IF t2 THEN 1
        ELSE IF closest = 1 THEN 1
        ELSE IF closest = 2 THEN -1
        ELSE 0

\* The orders qsort may leave the list in: every permutation in which no
\* entry stands before one that compares smaller.
sort_onion_announce_list(entries, now) ==
    {sorted \in {[i \in OnionSlots |-> entries[p[i]]] : p \in Permutations(OnionSlots)} :
        \A i, j \in OnionSlots : i < j => cmp_entry(now, sorted[i], sorted[j]) <= 0}

\* add_to_entries without the sort at its end.
add_to_entries_unsorted(entries, now, ret_ip_port, public_key, data_public_key, ret) ==
    LET pos1 == in_entries(entries, now, public_key)
        timed_out == {i \in OnionSlots :
                        mono_time_is_timeout(now, entries[i].announce_time, ONION_ANNOUNCE_TIMEOUT)}
        pos2 == IF pos1 # -1 THEN pos1
                ELSE IF timed_out = {} THEN -1
                ELSE CHOOSE i \in timed_out : \A j \in timed_out : j <= i
        pos3 == IF pos2 # -1 THEN pos2
                ELSE IF id_closest(SelfKey, public_key, entries[0].public_key) = 1 THEN 0
                ELSE -1
        written == [entries EXCEPT ![pos3] =
                      [public_key |-> public_key, ret_ip_port |-> ret_ip_port, ret |-> ret,
                       data_public_key |-> data_public_key, announce_time |-> now]]
    IN  IF pos3 = -1 THEN {[entries |-> entries, index |-> -1]}
        ELSE {[entries |-> written, index |-> in_entries(written, now, public_key)]}

\* add_to_entries without the search for the key at its start.
add_to_entries_no_search(entries, now, ret_ip_port, public_key, data_public_key, ret) ==
    LET timed_out == {i \in OnionSlots :
                        mono_time_is_timeout(now, entries[i].announce_time, ONION_ANNOUNCE_TIMEOUT)}
        pos2 == IF timed_out = {} THEN -1
                ELSE CHOOSE i \in timed_out : \A j \in timed_out : j <= i
        pos3 == IF pos2 # -1 THEN pos2
                ELSE IF id_closest(SelfKey, public_key, entries[0].public_key) = 1 THEN 0
                ELSE -1
        written == [entries EXCEPT ![pos3] =
                      [public_key |-> public_key, ret_ip_port |-> ret_ip_port, ret |-> ret,
                       data_public_key |-> data_public_key, announce_time |-> now]]
    IN  IF pos3 = -1 THEN {[entries |-> entries, index |-> -1]}
        ELSE {[entries |-> sorted, index |-> in_entries(sorted, now, public_key)] :
                 sorted \in sort_onion_announce_list(written, now)}

\* The outcomes of add_to_entries: the table and the returned position.
add_to_entries(entries, now, ret_ip_port, public_key, data_public_key, ret) ==
    LET pos1 == in_entries(entries, now, public_key)
        timed_out == {i \in OnionSlots :
                        mono_time_is_timeout(now, entries[i].announce_time, ONION_ANNOUNCE_TIMEOUT)}
        pos2 == IF pos1 # -1 THEN pos1
                ELSE IF timed_out = {} THEN -1
                ELSE CHOOSE i \in timed_out : \A j \in timed_out : j <= i
        pos3 == IF pos2 # -1 THEN pos2
                ELSE IF id_closest(SelfKey, public_key, entries[0].public_key) = 1 THEN 0
                ELSE -1
        written == [entries EXCEPT ![pos3] =
                      [public_key |-> public_key, ret_ip_port |-> ret_ip_port, ret |-> ret,
                       data_public_key |-> data_public_key, announce_time |-> now]]
    IN  IF pos3 = -1 THEN {[entries |-> entries, index |-> -1]}
        ELSE {[entries |-> sorted, index |-> in_entries(sorted, now, public_key)] :
                 sorted \in sort_onion_announce_list(written, now)}

make_announce_payload_helper(entries, ping_id2, index, packet_public_key, data_public_key) ==
    IF index < 0 THEN [is_stored |-> 0, data |-> ping_id2]
    ELSE IF entries[index].public_key = packet_public_key
    THEN IF entries[index].data_public_key # data_public_key
         THEN [is_stored |-> 0, data |-> ping_id2]
         ELSE [is_stored |-> 2, data |-> ping_id2]
    ELSE [is_stored |-> 1, data |-> entries[index].data_public_key]

\* The ping ids a request may carry: none, one the node made for the sender
\* in the last, in this or in the next window, one it made for another
\* address or for another key.
RequestPingIds(now, public_key, ip_port) ==
    {ZeroPingId}
    \cup {generate_ping_id(now + d * PING_ID_TIMEOUT, public_key, ip_port) : d \in -1..1}
    \cup {generate_ping_id(now, public_key, o) : o \in OnionSources \ {ip_port}}
    \cup {generate_ping_id(now, SelfKey, ip_port)}

\* The announce requests that decrypt: the key of the sender, the ping id,
\* the key that is searched and the data key.
AnnounceRequests(now, ip_port) ==
    UNION {[public_key : {k}, ping_id : RequestPingIds(now, k, ip_port),
            search_key : SearchKeys, data_public_key : DataKeys] : k \in OnionKeys}

LiveKeys(entries, now) ==
    {entries[i].public_key : i \in {j \in OnionSlots :
        ~mono_time_is_timeout(now, entries[j].announce_time, ONION_ANNOUNCE_TIMEOUT)}}

\* The key of the live entry that add_to_entries has overwritten: the key
\* announced if it had a live entry, else the key that is gone, else 0.
Overwritten(before, after, now, public_key) ==
    LET gone == LiveKeys(before, now) \ LiveKeys(after, now)
    IN  IF in_entries(before, now, public_key) # -1 THEN public_key
        ELSE IF gone = {} THEN 0
        ELSE CHOOSE k \in gone : TRUE

\* The table update of a handler: the outcomes are the table, the index,
\* and whether the ping id matched.
AnnounceUpdate(entries, now, ip_port, req) ==
    LET ping_id1 == generate_ping_id(now, req.public_key, ip_port)
        ping_id2 == generate_ping_id(now + PING_ID_TIMEOUT, req.public_key, ip_port)
    IN  IF onion_ping_id_eq(ping_id1, req.ping_id) \/ onion_ping_id_eq(ping_id2, req.ping_id)
        THEN {[entries |-> a.entries, index |-> a.index, accepted |-> TRUE,
               overwritten |-> IF a.index = -1 THEN 0
                               ELSE Overwritten(entries, a.entries, now, req.public_key)] :
                 a \in add_to_entries(entries, now, ip_port, req.public_key,
                                      req.data_public_key, OnionReturn(ip_port))}
        ELSE {[entries |-> entries, index |-> in_entries(entries, now, req.search_key),
               accepted |-> FALSE, overwritten |-> 0]}

AnnounceResponse(type, framing, entries, now, ip_port, req, index) ==
    LET ping_id2 == generate_ping_id(now + PING_ID_TIMEOUT, req.public_key, ip_port)
        pl == make_announce_payload_helper(entries, ping_id2, index, req.public_key,
                                           req.data_public_key)
    IN  [type |-> type, framing |-> framing, to |-> ip_port, ret |-> OnionReturn(ip_port),
         is_stored |-> pl.is_stored, data |-> pl.data]

\* The outcomes of a handler: the table, the record of the call and the
\* packets sent.
\* The group announce of the request is unpacked and added after the table
\* update; when that fails the handler returns without a response.
handle_gca_announce_request_outcomes(entries, now, ip_port, req) ==
    {[entries |-> u.entries,
      last |-> OnionLast("announce_request", u.accepted, u.index, u.overwritten),
      sent |-> IF gc_announce_added
               THEN <<AnnounceResponse("ANNOUNCE_RESPONSE", "count_nodes_announces",
                                       u.entries, now, ip_port, req, u.index)>>
               ELSE <<>>] :
        u \in AnnounceUpdate(entries, now, ip_port, req), gc_announce_added \in BOOLEAN}

handle_announce_request_outcomes(entries, now, ip_port, req) ==
    {[entries |-> u.entries,
      last |-> OnionLast("announce_request", u.accepted, u.index, u.overwritten),
      sent |-> <<AnnounceResponse("ANNOUNCE_RESPONSE", "count_nodes",
                                  u.entries, now, ip_port, req, u.index)>>] :
        u \in AnnounceUpdate(entries, now, ip_port, req)}

handle_announce_request_old_outcomes(entries, now, ip_port, req) ==
    {[entries |-> u.entries,
      last |-> OnionLast("announce_request", u.accepted, u.index, u.overwritten),
      sent |-> <<AnnounceResponse("ANNOUNCE_RESPONSE_OLD", "nodes",
                                  u.entries, now, ip_port, req, u.index)>>] :
        u \in AnnounceUpdate(entries, now, ip_port, req)}

\* A data request forwarded to whatever the slot of the key holds.
handle_data_request_any_outcomes(entries, now, public_key, data) ==
    LET found == {i \in OnionSlots : entries[i].public_key = public_key}
    IN  IF found = {} THEN {[entries |-> entries,
                                 last |-> OnionLast("data_request", FALSE, -1, 0),
                                 sent |-> <<>>]}
        ELSE LET index == CHOOSE i \in found : \A j \in found : i <= j
             IN  {[entries |-> entries,
                   last |-> OnionLast("data_request", FALSE, index, 0),
                   sent |-> <<[type |-> "ONION_DATA_RESPONSE", framing |-> "data",
                               to |-> entries[index].ret_ip_port, ret |-> entries[index].ret,
                               is_stored |-> 0, data |-> data]>>]}

handle_data_request_outcomes(entries, now, public_key, data) ==
    LET index == in_entries(entries, now, public_key)
    IN  IF index = -1 THEN {[entries |-> entries,
                                 last |-> OnionLast("data_request", FALSE, -1, 0),
                                 sent |-> <<>>]}
        ELSE {[entries |-> entries,
               last |-> OnionLast("data_request", FALSE, index, 0),
               sent |-> <<[type |-> "ONION_DATA_RESPONSE", framing |-> "data",
                           to |-> entries[index].ret_ip_port, ret |-> entries[index].ret,
                           is_stored |-> 0, data |-> data]>>]}

\* What the node keeps of an outcome.
StateOf(outcomes) == {[entries |-> o.entries, last |-> o.last] : o \in outcomes}

handle_gca_announce_request(ip_port, req) ==
    \E o \in StateOf(handle_gca_announce_request_outcomes(oa_entries, oa_time, ip_port, req)) :
       /\ oa_entries' = o.entries
       /\ oa_last' = o.last
       /\ UNCHANGED oa_time

\* A request of the minimal size is handled here, a longer one as a group
\* announce request.
handle_announce_request(ip_port, req) ==
    \E o \in StateOf(handle_announce_request_outcomes(oa_entries, oa_time, ip_port, req)) :
       /\ oa_entries' = o.entries
       /\ oa_last' = o.last
       /\ UNCHANGED oa_time

handle_announce_request_old(ip_port, req) ==
    \E o \in StateOf(handle_announce_request_old_outcomes(oa_entries, oa_time, ip_port, req)) :
       /\ oa_entries' = o.entries
       /\ oa_last' = o.last
       /\ UNCHANGED oa_time

handle_data_request(public_key, data) ==
    \E o \in StateOf(handle_data_request_outcomes(oa_entries, oa_time, public_key, data)) :
       /\ oa_entries' = o.entries
       /\ oa_last' = o.last
       /\ UNCHANGED oa_time

\* A packet of a wrong length, or one that does not decrypt: every handler
\* returns before it has done anything.
handle_malformed ==
    /\ oa_last' = OnionLast("malformed", FALSE, -1, 0)
    /\ UNCHANGED <<oa_entries, oa_time>>

oa_tick ==
    /\ oa_time < MaxOnionTime
    /\ oa_time' = oa_time + 1
    /\ oa_last' = OnionLast("tick", FALSE, -1, 0)
    /\ UNCHANGED oa_entries

OnionStep ==
    \/ \E s \in OnionSources : \E req \in AnnounceRequests(oa_time, s) :
          handle_announce_request_old(s, req)
    \/ \E s \in OnionSources : \E req \in AnnounceRequests(oa_time, s) :
          handle_announce_request(s, req)
    \/ \E s \in OnionSources : \E req \in AnnounceRequests(oa_time, s) :
          handle_gca_announce_request(s, req)
    \/ \E k \in OnionKeys \cup {0}, data \in {"data"} : handle_data_request(k, data)
    \/ handle_malformed
    \/ oa_tick

vars == <<lvars, svars, mvars, rvars, gvars, msgvars, pgvars, syvars, trvars, rjvars, savevars, ravars, jnvars, ptvars, srvars, tpvars, plvars, oavars>>

Init == InitLossless /\ InitState /\ InitSanctions /\ InitRoles /\ InitFounder
        /\ InitMessages /\ InitPing /\ InitSync /\ InitRace /\ InitRejoin /\ InitSave /\ InitRequests /\ InitJoin /\ InitTimeouts /\ InitResponse /\ InitTopic /\ InitList /\ InitOnion

NextLossless == LosslessStep /\ UNCHANGED <<svars, mvars, rvars, gvars, msgvars, pgvars, syvars, trvars, rjvars, savevars, ravars, jnvars, ptvars, srvars, tpvars, plvars, oavars>>

NextState == StateStep /\ UNCHANGED <<lvars, mvars, rvars, gvars, msgvars, pgvars, syvars, trvars, rjvars, savevars, ravars, jnvars, ptvars, srvars, tpvars, plvars, oavars>>

NextSanctions == SanctionsStep /\ UNCHANGED <<lvars, svars, rvars, gvars, msgvars, pgvars, syvars, trvars, rjvars, savevars, ravars, jnvars, ptvars, srvars, tpvars, plvars, oavars>>

NextRoles == RolesStep /\ UNCHANGED <<lvars, svars, mvars, gvars, msgvars, pgvars, syvars, trvars, rjvars, savevars, ravars, jnvars, ptvars, srvars, tpvars, plvars, oavars>>

\* Roles and permissions of the founder and two peers.
SpecRoles == Init /\ [][NextRoles]_vars

NextSpeak == SpeakStep /\ UNCHANGED <<lvars, svars, mvars, gvars, msgvars, pgvars, syvars, trvars, rjvars, savevars, ravars, jnvars, ptvars, srvars, tpvars, plvars, oavars>>

\* Messages, ignore flags and the observer role.
SpecSpeak == Init /\ [][NextSpeak]_vars

NextFounder == FounderStep /\ UNCHANGED <<lvars, svars, mvars, rvars, msgvars, pgvars, syvars, trvars, rjvars, savevars, ravars, jnvars, ptvars, srvars, tpvars, plvars, oavars>>

\* The founder's controls and the topic, called by peers of every role.
SpecFounder == Init /\ [][NextFounder]_vars

NextMessages == MessagesStep /\ UNCHANGED <<lvars, svars, mvars, rvars, gvars, pgvars, syvars, trvars, rjvars, savevars, ravars, jnvars, ptvars, srvars, tpvars, plvars, oavars>>

\* Group and private messages of one sender, with ignore and link timeouts.
SpecMessages == Init /\ [][NextMessages]_vars

NextPing == PingStep /\ UNCHANGED <<lvars, svars, mvars, rvars, gvars, msgvars, syvars, trvars, rjvars, savevars, ravars, jnvars, ptvars, srvars, tpvars, plvars, oavars>>

\* Exchanges of pings between two peers whose peer lists and versions change.
SpecPing == Init /\ [][NextPing]_vars

NextSync == SyncStep /\ UNCHANGED <<lvars, svars, mvars, rvars, gvars, msgvars, pgvars, trvars, rjvars, savevars, ravars, jnvars, ptvars, srvars, tpvars, plvars, oavars>>

\* A group split and its repair.
SpecSync == Init /\ [][NextSync]_vars

\* The same with a fair transport and the engine's loop: a handshake that
\* can complete does, pings are sent and handled again and again, and what
\* is in flight is handled.
FairSync ==
    /\ SpecSync
    /\ \A l \in SyLinks : WF_syvars(sy_handshake(l[1], l[2]))
    /\ \A l \in SyLinks : WF_syvars(sy_handle_ping(l[1], l[2]))
    /\ \A l \in SyLinks : WF_syvars(sy_handle_packet(l[1], l[2]))

\* The sanctions list under moderation by the founder and a moderator.
SpecSanctions == Init /\ [][NextSanctions]_vars

\* The replication of the shared state and the moderator list.
SpecState == Init /\ [][NextState]_vars

\* The lossless channel over a transport that loses, duplicates and reorders.
SpecLossless == Init /\ [][NextLossless]_vars

\* The same with the scheduling the engine's loop gives: the timer loop runs
\* again and again, and a datagram that stays in flight is handled.  The
\* transport itself stays free to lose every datagram.
FairLossless ==
    /\ SpecLossless
    /\ \A id \in Ids : WF_lvars(gcc_resend_packets(id))
    /\ \A id \in Ids : WF_lvars(handle_gc_lossless_packet(id, FALSE))
    /\ WF_lvars(\E a \in net_ack : handle_gc_message_ack(a))

NextRace == RaceStep /\ UNCHANGED <<lvars, svars, mvars, rvars, gvars, msgvars, pgvars, syvars, rjvars, savevars, ravars, jnvars, ptvars, srvars, tpvars, plvars, oavars>>

\* Two moderators setting the topic at the same time.
SpecRace == Init /\ [][NextRace]_vars

\* The same with links that deliver: a TOPIC in flight is handled.
FairRace ==
    /\ SpecRace
    /\ \A l \in TrLinks : WF_trvars(tr_handle_topic(l[1], l[2]))

NextRejoin == RejoinStep /\ UNCHANGED <<lvars, svars, mvars, rvars, gvars, msgvars, pgvars, syvars, trvars, savevars, ravars, jnvars, ptvars, srvars, tpvars, plvars, oavars>>

\* A peer that disconnects and reconnects, as another peer sees it.
SpecRejoin == Init /\ [][NextRejoin]_vars

NextSave == SaveStep /\ UNCHANGED <<lvars, svars, mvars, rvars, gvars, msgvars, pgvars, syvars, trvars, rjvars, ravars, jnvars, ptvars, srvars, tpvars, plvars, oavars>>

\* Groups that are saved and loaded while their state changes.
SpecSave == Init /\ [][NextSave]_vars

NextRequests == RequestsStep /\ UNCHANGED <<lvars, svars, mvars, rvars, gvars, msgvars, pgvars, syvars, trvars, rjvars, savevars, jnvars, ptvars, srvars, tpvars, plvars, oavars>>

\* The receiver's requests for missing packets over the seconds.
SpecRequests == Init /\ [][NextRequests]_vars

NextJoin == JoinStep /\ UNCHANGED <<lvars, svars, mvars, rvars, gvars, msgvars, pgvars, syvars, trvars, rjvars, savevars, ravars, ptvars, srvars, tpvars, plvars, oavars>>

\* A peer joining the group through one of its peers.
SpecJoin == Init /\ [][NextJoin]_vars

NextTimeouts == TimeoutsStep /\ UNCHANGED <<lvars, svars, mvars, rvars, gvars, msgvars, pgvars, syvars, trvars, rjvars, savevars, ravars, jnvars, srvars, tpvars, plvars, oavars>>

\* The timeouts of confirmed peers and of unconfirmed links.
SpecTimeouts == Init /\ [][NextTimeouts]_vars

NextResponse == ResponseStep /\ UNCHANGED <<lvars, svars, mvars, rvars, gvars, msgvars, pgvars, syvars, trvars, rjvars, savevars, ravars, jnvars, ptvars, tpvars, plvars, oavars>>

\* The state packets of the founder and of a sync response.
SpecResponse == Init /\ [][NextResponse]_vars

NextTopic == TopicStep /\ UNCHANGED <<lvars, svars, mvars, rvars, gvars, msgvars, pgvars, syvars, trvars, rjvars, savevars, ravars, jnvars, ptvars, srvars, plvars, oavars>>

\* The receipt of TOPIC packets.
SpecTopic == Init /\ [][NextTopic]_vars

NextList == ListStep /\ UNCHANGED <<lvars, svars, mvars, rvars, gvars, msgvars, pgvars, syvars, trvars, rjvars, savevars, ravars, jnvars, ptvars, srvars, tpvars, oavars>>

\* Peer lists that grow and shrink in any order.
SpecList == Init /\ [][NextList]_vars

NextOnion == OnionStep /\ UNCHANGED <<lvars, svars, mvars, rvars, gvars, msgvars, pgvars, syvars, trvars, rjvars, savevars, ravars, jnvars, ptvars, srvars, tpvars, plvars>>

\* A DHT node that handles announce and data requests while time passes.
SpecOnion == Init /\ [][NextOnion]_vars

\* C1: of two lossless packets of one sender the application never observes
\* the later sent one before the earlier sent one, whatever the transport
\* loses, duplicates or reorders.
C1_SendOrder ==
    \A i, j \in 1..Len(delivered) :
        i < j => ~(delivered[j].id < delivered[i].id)

\* C1 witness: two packets were delivered after the later one had arrived
\* first and been buffered (the transport reordered them).
C1_Witness ==
    /\ Len(delivered) >= 2
    /\ delivered[1].id = 1
    /\ delivered[2].id = 2
    /\ received_message_id >= 2
    /\ <<1, GR_ACK_REQ>> \in net_ack

\* C2: the k-th lossless packet handed to the application is the packet with
\* message id k (no gap, no duplicate), and every upcall passes the test
\* handler's check n == last_msg_recv + 1.
C2_GapFree ==
    /\ \A k \in 1..Len(delivered) :
        /\ delivered[k].id = k
        /\ group_message_handler_2(IF k = 1 THEN -1 ELSE delivered[k - 1].n,
                                   delivered[k].n)
    /\ last_msg_recv = Len(delivered) - 1

\* C2 witness: every packet was delivered while a copy of an already
\* delivered packet is still in flight and the sender has retransmitted.
C2_Witness ==
    /\ Len(delivered) = MaxMsgs
    /\ 1 \in net_data
    /\ \E id \in Ids : send_array[id] > 1

\* C3: a packet in the send window is eventually acknowledged, and then has
\* been delivered, or the link eventually becomes Failed.
C3_AckedOrFailed ==
    \A id \in Ids :
        (send_array[id] > 0) ~>
            \/ link = "Failed"
            \/ /\ send_array[id] = 0
               /\ \E k \in 1..Len(delivered) : delivered[k].id = id

\* C3 witness: a retransmitted packet was delivered and acknowledged on a
\* link that has not failed.
C3_Witness ==
    /\ link = "Confirmed"
    /\ send_message_id > MaxMsgs
    /\ SendWindow = {}
    /\ Len(delivered) = MaxMsgs
    /\ received_message_id = MaxMsgs

\* C4 (as first stated): the versions a receiver accepts are strictly
\* increasing, and a SHARED_STATE whose version is less than or equal to the
\* receiver's is dropped and the state kept.
C4_StrictlyIncreasing ==
    /\ last_recv.accepted => last_recv.version = "newer"
    /\ last_recv.version \in {"older", "same"} =>
            ~last_recv.accepted /\ last_recv.kept

\* C4: the versions a receiver accepts never decrease: a SHARED_STATE whose
\* version is less than the receiver's is dropped and the state kept, and one
\* of the receiver's own version, accepted or not, leaves the state as it was.
C4_VersionsNeverDecrease ==
    /\ last_recv.accepted => last_recv.version \in {"same", "newer"}
    /\ last_recv.version = "older" => ~last_recv.accepted /\ last_recv.kept
    /\ last_recv.version = "same" => last_recv.kept

\* C4 witness: a peer that holds the latest version has dropped a
\* SHARED_STATE of an older one.
C4_Witness ==
    /\ last_recv.version = "older"
    /\ ~last_recv.accepted
    /\ \E p \in Receivers : SsVersion(p) = MaxVersion

\* C5: the shared state every peer holds was signed by the founder, with the
\* group secret key, over exactly the fields the peer holds.
C5_FounderSigned ==
    \A p \in Receivers :
        /\ shared_state[p] \in signed_states
        /\ shared_state[p].sig = crypto_sign(ChatId, shared_state[p].fields)

\* C5 witness: a peer that has accepted a shared state of the founder has
\* dropped a SHARED_STATE whose version was acceptable.
C5_Witness ==
    /\ last_recv.version \in {"same", "newer"}
    /\ ~last_recv.accepted
    /\ \A p \in Receivers : SsVersion(p) > 1

\* C6 (as first stated): at every peer, in every state, the mod_list_hash of
\* the shared state is the hash of the moderator list the peer holds.
C6_HashAlwaysMatches ==
    \A p \in {Founder} \cup Receivers :
        mod_list_make_hash(mod_list[p]) = shared_state[p].fields.mod_list_hash

\* C6: the mod_list_hash of the shared state is the hash of the moderator
\* list held at the founder always, and at any other peer whenever the list it
\* holds was received for the shared state version it holds; the list a peer
\* holds is always the list of a founder-signed state no newer than its own.
C6_HashMatchesCurrentList ==
    /\ mod_list_make_hash(mod_list[Founder]) = shared_state[Founder].fields.mod_list_hash
    /\ \A p \in Receivers :
        /\ mod_list_version[p] <= SsVersion(p)
        /\ mod_list_version[p] = SsVersion(p) =>
                mod_list_make_hash(mod_list[p]) = shared_state[p].fields.mod_list_hash
        /\ \E s \in signed_states :
                /\ s.fields.version = mod_list_version[p]
                /\ mod_list_make_hash(mod_list[p]) = s.fields.mod_list_hash

\* C6 witness: a peer has accepted the shared state of a moderator list
\* change and not yet the MOD_LIST that belongs to it.
C6_Witness ==
    \E p \in Receivers :
        /\ mod_list_version[p] < SsVersion(p)
        /\ mod_list_make_hash(mod_list[p]) # shared_state[p].fields.mod_list_hash
        /\ \E i \in 1..Len(ss_queue[<<Founder, p>>]) :
                /\ ss_queue[<<Founder, p>>][i].type = "MOD_LIST"
                /\ mod_list_make_hash(ss_queue[<<Founder, p>>][i].list)
                        = shared_state[p].fields.mod_list_hash

\* C7: at every peer, in every state, every entry of the sanctions list is
\* signed by the founder or by a key in the moderator list of that peer.
C7_EntriesAuthoritative ==
    \A p \in SPeers : \A e \in sanctions[p] :
        e.setter = FounderKey \/ e.setter \in moderators[p]

\* No peer holds the founder role for a peer other than the founder.
NoSecondFounder == \A p, q \in RPeers : role[p][q] = "FOUNDER" => q = "A"

\* set_role succeeds only if the caller's role is strictly higher than the
\* target's, at least the new role, and the new role is not Founder.
SetRoleOnlyIfPermitted ==
    \A c, t \in RPeers, r \in Roles :
        (t \in peers[c] /\ SetRoleResult(c, t, r) = "OK") =>
            /\ Level(role[c][c]) > Level(role[c][t])
            /\ Level(role[c][c]) >= Level(r)
            /\ r # "FOUNDER"

ModeratorList(rl, r) == {q \in RPeers : rl[r][q] = "MODERATOR"}

\* C9: a set_role to Moderator by a caller that is not the founder, and a
\* set_role or kick by a moderator against another moderator or the founder,
\* fail with the permission error, change nothing and send nothing; the
\* moderator list of a peer changes only when it handles a SET_MOD or
\* KICK_PEER of the founder.
C9_OnlyFounder ==
    /\ [](/\ \A c, t \in RPeers :
                (c # t /\ t \in peers[c]) =>
                    /\ role[c][c] # "FOUNDER" =>
                            SetRoleResult(c, t, "MODERATOR") = "PERMISSIONS"
                    /\ (role[c][c] = "MODERATOR"
                            /\ role[c][t] \in {"MODERATOR", "FOUNDER"}) =>
                            /\ KickResult(c, t) = "PERMISSIONS"
                            /\ \A r \in Roles : SetRoleResult(c, t, r) = "PERMISSIONS"
          /\ (last_op.op \in {"set_role", "kick"} /\ last_op.result = "PERMISSIONS") =>
                ~last_op.sent /\ ~last_op.changed)
    /\ [][\A r \in RPeers \ {"A"} :
            ModeratorList(role', r) # ModeratorList(role, r) =>
                /\ rlink[<<"A", r>>] # <<>>
                /\ Head(rlink[<<"A", r>>]).type \in {"SET_MOD", "KICK_PEER"}
                /\ rlink'[<<"A", r>>] = Tail(rlink[<<"A", r>>])]_vars

\* C9 witness: with two moderators in the group, a set_role or kick has
\* failed with the permission error.
C9_Witness ==
    /\ last_op.op \in {"set_role", "kick"}
    /\ last_op.result = "PERMISSIONS"
    /\ \E p \in RPeers : role[p]["B"] = "MODERATOR" /\ role[p]["C"] = "MODERATOR"
                         /\ role[p][p] = "MODERATOR"

\* A message packet of peer `from`.
MessagePackets(from) ==
    {RolePacket(t, from, TRUE) : t \in {"PLAIN_MESSAGE", "PRIVATE_MESSAGE", "CUSTOM_PACKET"}}

\* C10: for a peer whose own role is Observer, send_message,
\* send_private_message and send_custom_packet fail, with the permission
\* error when the arguments are well formed, and no packet leaves the peer;
\* it still receives the messages of the peers it does not ignore and may
\* toggle ignore.
C10_ObserverCannotWrite ==
    /\ [](/\ \A c \in RPeers :
                role[c][c] = "OBSERVER" =>
                    /\ \A a \in MessageArgs : SendResult(c, a) # "OK"
                    /\ SendResult(c, "ok") = "PERMISSIONS"
                    /\ \A t \in peers[c] \ {c} :
                        /\ \A a \in MessageArgs : SendPrivateResult(c, t, a) # "OK"
                        /\ SendPrivateResult(c, t, "ok") = "PERMISSIONS"
                        /\ ToggleIgnoreResult(c, t) = "OK"
                        /\ (t \notin ignore[c] /\ role[c][t] # "OBSERVER") =>
                                \A m \in MessagePackets(t) : HandleResult(c, t, m) = "UPCALL"
          /\ (last_op.op \in {"send_message", "send_private_message", "send_custom_packet"}
                /\ last_op.result # "OK") => ~last_op.sent)
    /\ [][\A c \in RPeers :
            role[c][c] = "OBSERVER" =>
                \A r \in RPeers \ {c} : Len(rlink'[<<c, r>>]) <= Len(rlink[<<c, r>>])]_vars

\* C10 witness: an observer that ignores a peer has called send_message,
\* which failed with the permission error.
C10_Witness ==
    /\ role["C"]["C"] = "OBSERVER"
    /\ ignore["C"] # {}
    /\ last_op.op = "send_message"
    /\ last_op.result = "PERMISSIONS"

FounderControls == {"set_password", "set_privacy_state", "set_peer_limit", "set_topic_lock"}

\* C12: set_password, set_privacy_state, set_peer_limit and set_topic_lock
\* called by a peer that is not the founder never succeed and, with
\* arguments of a valid type, fail with the permission error; the caller's
\* shared state and its version are unchanged and nothing is sent.
C12_FounderOnly ==
    /\ [](/\ \A c \in GPeers :
                GRole[c] # "FOUNDER" =>
                    /\ \A x \in PasswordArgs : SetPasswordResult(c, x) = "PERMISSIONS"
                    /\ \A x \in PrivacyStates : SetPrivacyStateResult(c, x) = "PERMISSIONS"
                    /\ \A x \in PeerLimits : SetPeerLimitResult(c, x) = "PERMISSIONS"
                    /\ \A x \in TopicLocks : SetTopicLockResult(c, x) = "PERMISSIONS"
                    /\ \A x \in TopicLockArgs : SetTopicLockResult(c, x) # "OK"
          /\ (g_call.op \in FounderControls /\ g_call.result # "OK") =>
                ~g_call.sent /\ ~g_call.changed)
    /\ [][\A c \in GPeers :
            (/\ GRole[c] # "FOUNDER"
             /\ \/ \E x \in PasswordArgs : tox_group_founder_set_password(c, x)
                \/ \E x \in PrivacyStates : tox_group_founder_set_privacy_state(c, x)
                \/ \E x \in PeerLimits : tox_group_founder_set_peer_limit(c, x)
                \/ \E x \in TopicLockArgs : tox_group_founder_set_topic_lock(c, x))
            => /\ UNCHANGED <<g_state, g_topic, glink>>
               /\ g_call'.result # "OK"]_vars

\* C12 witness: after the founder has changed the shared state, a call of
\* set_peer_limit has failed with the permission error.
C12_Witness ==
    /\ g_state["F"].fields.version = 2
    /\ g_state["M"].fields.version = 2
    /\ g_call.op = "set_peer_limit"
    /\ g_call.result = "PERMISSIONS"

\* C13: every change of the founder's shared state makes a state with the
\* previous version + 1, signed with the group secret key, and puts one
\* SHARED_STATE carrying it on the link to every peer; set_privacy_state
\* with the state the group is already in succeeds, takes no action and
\* leaves the version unchanged.
C13_VersionPlusOne ==
    /\ [][g_state'["F"] # g_state["F"] =>
            /\ g_state'["F"].fields.version = g_state["F"].fields.version + 1
            /\ crypto_sign_verify(ChatId, g_state'["F"].sig, g_state'["F"].fields)
            /\ \A p \in GPeers \ {"F"} :
                    glink'[<<"F", p>>] =
                        Append(glink[<<"F", p>>], GStatePacket(g_state'["F"]))]_vars
    /\ [][\A x \in PrivacyStates :
            tox_group_founder_set_privacy_state("F", x) =>
                /\ g_call'.result = "OK"
                /\ g_state'["F"].fields.privacy = x
                /\ IF x = g_state["F"].fields.privacy
                   THEN UNCHANGED <<g_state, g_topic, glink>>
                   ELSE g_state'["F"].fields.version = g_state["F"].fields.version + 1]_vars
    /\ []((g_call.op \in FounderControls /\ g_call.result = "OK") =>
                (g_call.sent <=> g_call.changed))

\* C13 witness: the founder has made the group private, every peer holds
\* that state, and a second set_privacy_state to private has succeeded
\* without sending or changing anything.
C13_Witness ==
    /\ \A p \in GPeers : /\ g_state[p].fields.privacy = "PRIVATE"
                         /\ g_state[p].fields.version = 2
    /\ g_call = [op |-> "set_privacy_state", result |-> "OK",
                 sent |-> FALSE, changed |-> FALSE]

C15_PrivateToTargetOnly ==
    /\ [](/\ \A r \in MReceivers : \A i \in 1..Len(mlink[r]) : mlink[r][i].to = r
          /\ \A r \in MReceivers, t \in MessageTypes, x \in Texts :
                ~peer_is_ignored(r, MSender) =>
                    MessageUpcall(r, MPacket("GM_PRIVATE_MESSAGE",
                                             PrivateMessagePayload(t, x), r))
                        = [event |-> "private_message", peer |-> r,
                           type |-> t, message |-> x]
          /\ m_upcall.event # "none" => m_upcall.peer = m_handled.peer)
    /\ [][\A target \in MReceivers, t \in MessageTypes, x \in Texts :
            tox_group_send_private_message(target, t, x) =>
                \A r \in MReceivers :
                    mlink'[r] =
                        IF r = target
                        THEN Append(mlink[r], MPacket("GM_PRIVATE_MESSAGE",
                                                      PrivateMessagePayload(t, x), r))
                        ELSE mlink[r]]_vars
    /\ [][\A t \in MessageTypes, x \in Texts :
            tox_group_send_message(t, x) =>
                \A r \in MReceivers :
                    mlink'[r] =
                        IF r \in m_confirmed
                        THEN Append(mlink[r], MPacket(GroupBroadcastType(t), x, r))
                        ELSE mlink[r]]_vars

\* C15 witness: C's private-message upcall was invoked with a two-byte
\* action message while nothing is in flight to A.
C15_Witness ==
    /\ m_upcall = [event |-> "private_message", peer |-> "C",
                   type |-> "ACTION", message |-> <<104, 105>>]
    /\ m_handled.peer = "C"
    /\ "A" \in m_confirmed
    /\ mlink["A"] = <<>>

\* C16: set_role, kick and toggle_ignore whose target is the caller itself
\* fail with the Self error, whatever the role of the caller; the roles, the
\* peer lists and the ignore flags are unchanged and no packet is sent.
C16_SelfTarget ==
    /\ [](/\ \A c \in RPeers :
                /\ \A r \in Roles : SetRoleResult(c, c, r) = "SELF"
                /\ KickResult(c, c) = "SELF"
                /\ ToggleIgnoreResult(c, c) = "SELF"
          /\ last_op.result = "SELF" => ~last_op.sent /\ ~last_op.changed)
    /\ [][\A c \in RPeers :
            (\/ \E r \in Roles : gc_set_peer_role(c, c, r)
             \/ gc_kick_peer(c, c)
             \/ \E f \in BOOLEAN : gc_toggle_ignore(c, c, f))
            => /\ UNCHANGED <<role, peers, ignore, rlink>>
               /\ last_op'.result = "SELF"]_vars

\* C16 witness: in a group with a moderator and an observer a kick has
\* failed with the Self error.
C16_Witness ==
    /\ last_op.op = "kick"
    /\ last_op.result = "SELF"
    /\ \E p, q \in RPeers : role[p][p] = "MODERATOR" /\ role[q][q] = "OBSERVER"

\* C18: a peer that handles a SHARED_STATE whose version equals the version
\* of the shared state it holds keeps its shared state and the version, and
\* no event (password, privacy state, peer limit, topic lock) is triggered,
\* whichever peer sent the packet and however often it is sent.
C18_SameVersionNoOp ==
    /\ [](g_handled = "same" => g_events = {})
    /\ [][\A from, p \in GPeers :
            (/\ handle_gc_founder_packet(from, p)
             /\ Head(glink[<<from, p>>]).type = "SHARED_STATE"
             /\ Head(glink[<<from, p>>]).ss.fields.version = g_state[p].fields.version) =>
                /\ g_handled' = "same"
                /\ g_state' = g_state
                /\ g_topic' = g_topic
                /\ g_events' = {}]_vars

\* C18 witness: after the founder has set a password and every peer holds
\* the new shared state, a peer has handled that shared state once more,
\* sent by another peer, and no event was triggered.
C18_Witness ==
    /\ g_handled = "same"
    /\ g_events = {}
    /\ \A p \in GPeers : /\ g_state[p].fields.version = 2
                         /\ g_state[p].fields.password = "pw"

\* C19: when two peers have exchanged pings and neither has sent a sync
\* request, the checksums of their peer lists are equal and their shared
\* state, sanctions credentials and topic versions are equal; when the
\* checksums differ, at least one of the two has sent a sync request with the
\* PEER_LIST flag.
C19_InSyncSameChecksum ==
    (pg_sync["A"].handled /\ pg_sync["B"].handled) =>
        /\ (pg_sync["A"].flags = {} /\ pg_sync["B"].flags = {}) =>
                /\ self_ping_data("A").checksum = self_ping_data("B").checksum
                /\ pg_versions["A"] = pg_versions["B"]
        /\ self_ping_data("A").checksum # self_ping_data("B").checksum =>
                "PEER_LIST" \in pg_sync["A"].flags \cup pg_sync["B"].flags

\* C19 witness: two peers that both hold C besides each other, at the same
\* raised versions, have exchanged pings and neither has sent a request.
C19_Witness ==
    /\ pg_sync["A"] = [handled |-> TRUE, flags |-> {}]
    /\ pg_sync["B"] = [handled |-> TRUE, flags |-> {}]
    /\ pg_peers["A"] = {"B", "C"}
    /\ pg_peers["B"] = {"A", "C"}
    /\ pg_versions["A"]["shared_state"] = 1

\* All three peers hold the same shared state version and the same peer
\* list checksum.
SyStateConverged ==
    \A p, q \in SyPeers :
        /\ sy_state[p].fields.version = sy_state[q].fields.version
        /\ sy_ping_data(p).checksum = sy_ping_data(q).checksum

\* All three peers hold the same moderator list as well.
SyConverged == SyStateConverged /\ \A p, q \in SyPeers : sy_mods[p] = sy_mods[q]

\* No SYNC_REQUEST has just been sent and none is in flight.
NoSyncRequest ==
    /\ ~sy_request
    /\ \A l \in SyLinks : \A i \in 1..Len(sy_link[l]) : sy_link[l][i].type # "SYNC_REQUEST"

TopicConverged == \A p, q \in TrPeers : tr_topic[p] = tr_topic[q]

\* Every peer holds a topic of the largest version that was set (so all
\* hold the same topic when one topic only has that version).
TopicVersionConverged ==
    \A p \in TrPeers :
        /\ tr_topic[p] \in tr_made
        /\ \A info \in tr_made : info.version <= tr_topic[p].version

C22_RejoinKeepsIdentity ==
    [][/\ (rj_conn' # rj_conn /\ rj_conn' # "connected") => rj_self' = rj_self
       /\ (rj_conn = "connecting" /\ rj_conn' = "connected") =>
            /\ rj_self' = rj_self
            /\ rj_view' = PeerEntry(rj_self, rj_view'.session)
            /\ rj_seen.present =>
                 /\ rj_view'.enc_pk = rj_seen.enc_pk
                 /\ rj_view'.sig_pk = rj_seen.sig_pk
                 /\ KeySum(rj_view'.enc_pk) = KeySum(rj_seen.enc_pk)
                 /\ rj_view'.session # rj_seen.session
                 /\ rj_session' = rj_view'.session]_rjvars

\* C22 witness: the moderator P has reconnected: Q holds a new entry for P
\* with the keys, nickname, status and role of the entry it had dropped, and
\* with another session key.
C22_Witness ==
    /\ rj_conn = "connected"
    /\ rj_seen.present
    /\ rj_view.present
    /\ rj_self.role = "MODERATOR"
    /\ rj_view.session # rj_seen.session
    /\ [rj_view EXCEPT !.session = 0] = [rj_seen EXCEPT !.session = 0]

\* The kick of peer t has reached everybody: nothing is in flight and a peer
\* that is still connected has removed t from its peer list.
KickPropagated(t) ==
    /\ \A l \in RLinks : rlink[l] = <<>>
    /\ \E p \in RPeers \ {t} : r_chat[p].state = "connected" /\ t \notin peers[p]

LastConsecutive(id) ==
    CHOOSE k \in id..MaxMsgs :
        /\ \A j \in (id + 1)..k : j \in recv_array
        /\ (k + 1) \notin recv_array

C27_SendWindow ==
    /\ [](SendWindow \subseteq 1..(send_message_id - 1))
    /\ [][/\ send_message_id' \in {send_message_id, send_message_id + 1}
          /\ send_message_id' = send_message_id + 1 =>
                /\ send_array[send_message_id] = 0
                /\ send_array'[send_message_id] = 1
                /\ send_message_id \in net_data'
          /\ \A id \in Ids :
                (send_array[id] > 0 /\ send_array'[id] = 0) =>
                    (<<id, GR_ACK_RECV>> \in net_ack /\ <<id, GR_ACK_RECV>> \notin net_ack')
          /\ \A a \in net_ack :
                handle_gc_message_ack(a) =>
                    /\ (a[2] = GR_ACK_REQ /\ a[1] \in SendWindow) =>
                          (a[1] \in net_data' /\ send_array' = send_array)
                    /\ (a[2] = GR_ACK_RECV /\ a[1] \in SendWindow) =>
                          (send_array' = [send_array EXCEPT ![a[1]] = 0]
                           /\ net_data' = net_data)
                    /\ a[1] \notin SendWindow =>
                          (send_array' = send_array /\ net_data' = net_data
                           /\ send_message_id' = send_message_id)]_lvars

\* C27 witness: packets 1 and 2 were sent; the receipt of packet 1 has
\* removed it from the send window, packet 2 is still in it, and a request
\* for packet 1, which is no longer in the window, is on its way.
C27_Witness ==
    /\ send_message_id = 3
    /\ SendWindow = {2}
    /\ <<1, GR_ACK_REQ>> \in net_ack
    /\ received_message_id >= 1

\* C26 as stated: a lossless packet with an id greater than next_expected is
\* buffered, not handed to the application, and MESSAGE_ACK{next_expected,
\* GR_ACK_REQ} is replied unless a request for that same id was already sent
\* during the current second.
C26_RequestPerId ==
    [][\A id \in AckIds :
         (ra_handle_lossless_packet(id) /\ id > ra_rmid + 1) =>
             /\ ra_last'.deliver = <<>>
             /\ id \in ra_buf'
             /\ ra_count[ra_rmid + 1] = 0 =>
                    ra_last'.ack = <<ra_rmid + 1, GR_ACK_REQ>>]_ravars

\* C26 with the limit of gc_send_message_ack: a lossless packet with an id
\* greater than next_expected is buffered, not handed to the application,
\* and MESSAGE_ACK{next_expected, GR_ACK_REQ} is replied unless a request,
\* for whatever id, was already sent to the peer during the current second;
\* hence at most one request is sent per second.
C26_RequestPerPeer ==
    /\ [](\A i, j \in AckIds : ra_count[i] + (IF i = j THEN 0 ELSE ra_count[j]) <= 1)
    /\ [][\A id \in AckIds :
            (ra_handle_lossless_packet(id) /\ id > ra_rmid + 1) =>
                /\ ra_last'.deliver = <<>>
                /\ id \in ra_buf'
                /\ ra_rmid' = ra_rmid
                /\ ra_last'.ack = IF ra_requested THEN NoAck
                                  ELSE <<ra_rmid + 1, GR_ACK_REQ>>]_ravars

\* C26 witness: packets 3 and 4 arrived behind the gap at 1 within one
\* second: both are buffered, nothing was handed to the application, one
\* request for packet 1 was sent and the second packet was answered with
\* nothing.
C26_Witness ==
    /\ ra_rmid = 0
    /\ ra_buf = {3, 4}
    /\ ra_requested
    /\ ra_count[1] = 1
    /\ ra_last = [id |-> 4, deliver |-> <<>>, ack |-> NoAck]

\* C28: a link becomes Confirmed only by way of HandshakeSent,
\* HandshakeAcked and PeerInfoExchanged, in this order; and a peer is in
\* the peer list (hence in the peer count and the checksum) and has had its
\* peer_join upcall only if its link went this way and the invite request
\* was validated before the peer info was taken.
C28_ConfirmedInOrder ==
    \A s \in JoinSides :
        /\ jn_state[s] = "Confirmed" =>
              /\ jn_hist[s] = <<"Uninitialized", "HandshakeSent", "HandshakeAcked",
                                "PeerInfoExchanged", "Confirmed">>
              /\ jn_invited[s]
        /\ (jn_peers[s] # {} \/ jn_joined[s] # {}) =>
              /\ Len(jn_hist[s]) >= 5
              /\ SubSeq(jn_hist[s], 1, 5) = <<"Uninitialized", "HandshakeSent",
                                              "HandshakeAcked", "PeerInfoExchanged",
                                              "Confirmed">>
        /\ jn_peers[s] # {} => jn_state[s] = "Confirmed"

\* C28 witness: J and R have confirmed each other after the handshake, a
\* validated invite request and the exchange of peer info; both have had
\* the peer_join upcall.
C28_Witness ==
    /\ \A s \in JoinSides : jn_state[s] = "Confirmed" /\ jn_invited[s]
    /\ jn_peers = [J |-> {"R"}, R |-> {"J"}]
    /\ jn_joined = [J |-> {"R"}, R |-> {"J"}]
    /\ jn_group.password = "secret"

\* The type the join_fail event is to report for a failed check.
JoinFailFor(check) ==
    IF check = "nick" THEN "NAME_TAKEN"
    ELSE IF check = "limit" THEN "PEER_LIMIT"
    ELSE "INVALID_PASSWORD"

\* C29: R answers an invite request with INVITE_RESPONSE only if the
\* password matches, the nickname is not taken and the peer limit is not
\* reached; a requester it rejects is not in its peer list; and the
\* join_fail event of the requester reports the type that matches a check
\* that failed: NAME_TAKEN, PEER_LIMIT or INVALID_PASSWORD.
C29_RejectReported ==
    /\ jn_invited["R"] => FailedChecks(jn_group.join_password, jn_group.join_nick) = {}
    /\ jn_state["R"] = "Failed" => jn_peers["R"] = {}
    /\ jn_fail.type # "none" =>
          \E check \in jn_fail.checks : jn_fail.type = JoinFailFor(check)

\* C31 as stated: a confirmed peer from which no ping has been received for
\* 72 seconds is no longer in the peer list.
C31_GoneAfter72 ==
    \A p \in pt_list : pt_age[p] < ConfirmedTimeoutShort

\* C31 with the timeout of the code (six ping timeouts and ten seconds, 82
\* seconds): a confirmed peer whose last ping is that old has left the peer
\* list, with exit type TIMEOUT; a peer leaves with exit type TIMEOUT only
\* when its last ping is that old; an unconfirmed link without progress for
\* the unconfirmed-peer timeout is discarded, has never been in the peer
\* list and causes no peer_exit upcall.
C31_PeerTimeouts ==
    /\ \A p \in pt_list : pt_link[p] = "confirmed" /\ pt_age[p] < GC_CONFIRMED_PEER_TIMEOUT
    /\ \A p \in TimeoutPeers :
          pt_link[p] = "unconfirmed" =>
             /\ pt_age[p] < GC_UNCONFIRMED_PEER_TIMEOUT
             /\ p \notin pt_list
             /\ ~pt_listed[p]
    /\ \A e \in pt_exit :
          e.type = "TIMEOUT" =>
             \E g \in pt_gone : /\ g.peer = e.peer
                                /\ g.link = "confirmed"
                                /\ g.age >= GC_CONFIRMED_PEER_TIMEOUT
    /\ \A g \in pt_gone :
          /\ g.peer \notin pt_list
          /\ g.link = "confirmed" =>
                /\ g.age = GC_CONFIRMED_PEER_TIMEOUT
                /\ [peer |-> g.peer, type |-> "TIMEOUT"] \in pt_exit
          /\ g.link = "unconfirmed" =>
                /\ g.age = GC_UNCONFIRMED_PEER_TIMEOUT
                /\ ~pt_listed[g.peer]
                /\ \A e \in pt_exit : e.peer # g.peer

\* C31 witness: X has left the peer list with exit type TIMEOUT, 82 seconds
\* after its last ping, while Y, whose unconfirmed link had been discarded
\* before, is confirmed and stays.
C31_Witness ==
    /\ pt_exit = {[peer |-> "X", type |-> "TIMEOUT"]}
    /\ [peer |-> "X", age |-> GC_CONFIRMED_PEER_TIMEOUT, link |-> "confirmed"] \in pt_gone
    /\ pt_list = {"Y"}
    /\ pt_age["Y"] > ConfirmedTimeoutShort

\* C32: a peer that has handled the ping of a confirmed peer has sent a
\* sync request to it iff a version of the ping (shared state, sanctions
\* credentials, topic) is greater than its own, or the checksums of the peer
\* lists differ and the peer count of the ping is not smaller than its own;
\* the request has the flag PEER_LIST, TOPIC or STATE exactly for what was
\* found behind, and a ping without such a difference sends nothing.
C32_SyncRequestFlags ==
    \A p \in PingPeers :
        LET from == OtherPingPeer(p)
            mine == pg_versions[p]
            theirs == pg_versions[from]
            flags == pg_sync[p].flags
        IN  pg_sync[p].handled =>
              /\ from \in pg_peers[p]
              /\ "TOPIC" \in flags <=> theirs.topic > mine.topic
              /\ "STATE" \in flags <=>
                    \/ theirs.shared_state > mine.shared_state
                    \/ theirs.sanctions_creds > mine.sanctions_creds
              /\ "PEER_LIST" \in flags <=>
                    /\ PeerListChecksum(pg_peers[from] \cup {from})
                          # PeerListChecksum(pg_peers[p] \cup {p})
                    /\ Cardinality(pg_peers[from]) >= Cardinality(pg_peers[p])
              /\ flags \subseteq {"PEER_LIST", "TOPIC", "STATE"}

\* C32 witness: A holds three confirmed peers and B one, and B holds newer
\* sanctions credentials: A has handled B's ping and asked for the state
\* only; B has handled A's ping and asked for the peer list only.
C32_Witness ==
    /\ pg_peers = [A |-> {"B", "C", "D"}, B |-> {"A"}]
    /\ pg_versions["A"] = [shared_state |-> 0, sanctions_creds |-> 0, topic |-> 0]
    /\ pg_versions["B"] = [shared_state |-> 0, sanctions_creds |-> 1, topic |-> 0]
    /\ pg_sync["A"] = [handled |-> TRUE, flags |-> {"STATE"}]
    /\ pg_sync["B"] = [handled |-> TRUE, flags |-> {"PEER_LIST"}]

\* The types of a sequence of packets.
PacketTypes(packets) == [i \in 1..Len(packets) |-> packets[i].type]

\* The SYNC_RESPONSE packets at the end of a response.
Announces(packets) == SelectSeq(packets, LAMBDA m : m.type = "SYNC_RESPONSE")

\* C33: a MOD_LIST is sent directly after the SHARED_STATE that carries its
\* hash, and the receiver has accepted that shared state when it handles
\* the list: after a change of the moderator list the founder sends the
\* new shared state and then the new list; a sync response is, in this
\* order, one SHARED_STATE, one MOD_LIST and one SANCTIONS_LIST when STATE
\* was asked for, one TOPIC when TOPIC was asked for, one SYNC_RESPONSE for
\* each peer of the responder other than the requester when PEER_LIST was
\* asked for; the receiver drops no SHARED_STATE and no MOD_LIST.
C33_StateBeforeModList ==
    LET sent == sr_sent.packets
        queue == sr_net[RespFounder]
    IN  /\ \A i \in 1..Len(sent) :
              sent[i].type = "MOD_LIST" =>
                 /\ i > 1
                 /\ sent[i - 1].type = "SHARED_STATE"
                 /\ mod_list_verify(sent[i].list, sent[i - 1].ss)
        /\ \A i \in 1..Len(queue) :
              queue[i].type = "MOD_LIST" =>
                 mod_list_verify(queue[i].list, IF i = 1 THEN sr_state[RespPeer] ELSE queue[i - 1].ss)
        /\ \A i \in 2..Len(queue) :
              queue[i].type = "SANCTIONS_LIST" /\ queue[i - 1].type = "MOD_LIST" =>
                 /\ RespKeyOk(queue[i - 1].list, queue[i].sanctions.creds.modifier)
                 /\ \A e \in queue[i].sanctions.list : RespKeyOk(queue[i - 1].list, e.setter)
        /\ sr_sent.response =>
              PacketTypes(sent) =
                 (IF "STATE" \in sr_sent.flags
                  THEN <<"SHARED_STATE", "MOD_LIST", "SANCTIONS_LIST">> ELSE <<>>)
                 \o (IF "TOPIC" \in sr_sent.flags THEN <<"TOPIC">> ELSE <<>>)
                 \o PacketTypes(Announces(sent))
        /\ sr_sent.response =>
              /\ {m.announce : m \in {Announces(sent)[i] : i \in 1..Len(Announces(sent))}}
                    = IF "PEER_LIST" \in sr_sent.flags
                      THEN sr_peers[RespFounder] \ {RespPeer} ELSE {}
              /\ Len(Announces(sent)) =
                    IF "PEER_LIST" \in sr_sent.flags
                    THEN Cardinality(sr_peers[RespFounder] \ {RespPeer}) ELSE 0
        /\ sr_dropped \notin {"SHARED_STATE", "MOD_LIST"}

\* C33 witness: A was away while the founder made pk_C a moderator and pk_C
\* set an observer; back in the group it asked for state and peer list, and
\* it has handled the SHARED_STATE, the MOD_LIST and the SANCTIONS_LIST of
\* the response: it holds the founder's moderator list and the sanctions
\* pk_C signed, and the announce of D is still on its way.
C33_Witness ==
    /\ sr_mods[RespPeer] = <<"pk_C">>
    /\ sr_sanctions[RespPeer].list = {sanctions_list_make_entry("X", "pk_C")}
    /\ sr_sanctions[RespPeer] = sr_sanctions[RespFounder]
    /\ sr_state[RespPeer] = sr_state[RespFounder]
    /\ sr_pending
    /\ PacketTypes(sr_net[RespFounder]) = <<"SYNC_RESPONSE", "SYNC_RESPONSE">>
    /\ sr_peers[RespFounder] = {"A", "C", "D"}

\* The setter of a topic_info may set the topic, by the group state P holds.
SetterAllowed(info) ==
    IF tp_lock = "TL_ENABLED"
    THEN info.setter = "F" \/ info.setter \in tp_mods
    ELSE info.setter = "F" \/ info.setter \in tp_mods \/ info.setter \notin tp_observers

\* The signature of a topic_info was made by its setter over its version
\* and topic.
SignatureVerifies(info) ==
    info.sig = [signer |-> GSigKey(info.setter), over |-> <<info.version, info.topic>>]

\* C34 as stated: P replaces its topic only with a topic_info whose setter
\* may set the topic at the time of receipt, whose signature verifies and
\* whose version is strictly greater than the version P holds; any other
\* TOPIC changes nothing and triggers no upcall.
C34_StrictlyNewerTopic ==
    tp_last.handled =>
        IF /\ SetterAllowed(tp_last.info)
           /\ SignatureVerifies(tp_last.info)
           /\ tp_last.info.version > tp_last.before.version
        THEN tp_topic = tp_last.info
        ELSE tp_topic = tp_last.before /\ ~tp_last.upcall

\* C34 with the documented version check: P replaces its topic with a
\* received topic_info iff its setter is, by the group state P holds at the
\* receipt, the founder or in the moderator list (topic lock enabled) or no
\* observer (topic lock disabled), its signature verifies under the
\* setter's key, and its version is not older than the version P holds;
\* any other TOPIC leaves topic and version as they are and triggers no
\* upcall; the upcall is triggered when the topic text has changed.
C34_NotOlderTopic ==
    tp_last.handled =>
        IF /\ SetterAllowed(tp_last.info)
           /\ SignatureVerifies(tp_last.info)
           /\ tp_last.info.version >= tp_last.before.version
        THEN /\ tp_topic = tp_last.info
             /\ tp_last.upcall <=> tp_last.info.topic # tp_last.before.topic
        ELSE tp_topic = tp_last.before /\ ~tp_last.upcall

\* C34 witness: P held the topic "one" of version 1 set by M, and has
\* replaced it by the topic "two" of the same version 1 that the founder
\* signed.
C34_Witness ==
    /\ tp_last.handled
    /\ tp_last.before = sign_gc_topic(1, "one", "M")
    /\ tp_topic = sign_gc_topic(1, "two", "F")
    /\ tp_last.upcall

\* The peers with a confirmed entry in the peer list of o.
ConfirmedKeys(o) ==
    {pl_list[o][i].peer : i \in {j \in 1..Len(pl_list[o]) : pl_list[o][j].confirmed}}

\* C36: the checksum and the peer count of a ping are functions of the set
\* of confirmed keys alone: the checksum of an array is the checksum of the
\* set of its confirmed keys, the count is the size of that set without the
\* owner, and two peers that hold the same set of confirmed keys have the
\* same checksum and the same count, whatever the order of their arrays
\* and whatever unconfirmed entries they hold besides.
C36_ChecksumOfConfirmedSet ==
    /\ \A o \in ListOwners :
          /\ ListChecksum(pl_list[o]) = PeerListChecksum(ConfirmedKeys(o))
          /\ ListPeerCount(pl_list[o]) = Cardinality(ConfirmedKeys(o) \ {o})
    /\ \A o, q \in ListOwners :
          ConfirmedKeys(o) = ConfirmedKeys(q) =>
             /\ ListChecksum(pl_list[o]) = ListChecksum(pl_list[q])
             /\ ListPeerCount(pl_list[o]) = ListPeerCount(pl_list[q])

\* C36 witness: A and B hold each other and D as confirmed peers, in
\* different orders, and A holds an unconfirmed entry of C between them.
C36_Witness ==
    /\ pl_list["A"] = <<ListEntry("A", TRUE), ListEntry("D", TRUE),
                        ListEntry("C", FALSE), ListEntry("B", TRUE)>>
    /\ pl_list["B"] = <<ListEntry("B", TRUE), ListEntry("A", TRUE), ListEntry("D", TRUE)>>
    /\ ListChecksum(pl_list["A"]) = ListChecksum(pl_list["B"])

\* The entry in slot i of the table was announced less than
\* ONION_ANNOUNCE_TIMEOUT ago.
OnionLive(i) == oa_time - oa_entries[i].announce_time < ONION_ANNOUNCE_TIMEOUT

\* The ping ids of the current and of the next window for a key and an
\* address.
WindowPingIds(public_key, ip_port) ==
    {[ping_time |-> w, public_key |-> public_key, ret_ip_port |-> ip_port] :
        w \in {oa_time \div PING_ID_TIMEOUT, oa_time \div PING_ID_TIMEOUT + 1}}

TableUpdates(outcomes) ==
    {[entries |-> o.entries, index |-> o.last.index] : o \in outcomes}

Unframed(outcomes) ==
    {[to |-> o.sent[1].to, ret |-> o.sent[1].ret, is_stored |-> o.sent[1].is_stored,
      data |-> o.sent[1].data] : o \in outcomes}

\* C37: in every reachable state of the table and for every announce
\* request, each of the three handlers changes the table only if the ping id
\* of the request is the one of the current or of the next window for the
\* key and the address of the sender; with any other ping id the table stays
\* as it is and the index is that of the searched key.  The old and the new
\* handler (and the group announce handler) make the same table updates, and
\* the responses of the old and of the new handler differ in type and
\* framing only.
C37_AnnounceNeedsPingId ==
    \A s \in OnionSources : \A req \in AnnounceRequests(oa_time, s) :
       LET valid == req.ping_id \in WindowPingIds(req.public_key, s)
           old == handle_announce_request_old_outcomes(oa_entries, oa_time, s, req)
           new == handle_announce_request_outcomes(oa_entries, oa_time, s, req)
           gca == handle_gca_announce_request_outcomes(oa_entries, oa_time, s, req)
       IN  /\ \A o \in old \cup new \cup gca :
                /\ o.entries # oa_entries => valid
                /\ o.last.accepted <=> valid
                /\ ~valid => /\ o.entries = oa_entries
                             /\ o.last.index = in_entries(oa_entries, oa_time, req.search_key)
           /\ TableUpdates(old) = TableUpdates(new)
           /\ TableUpdates(gca) = TableUpdates(new)
           /\ Unframed(old) = Unframed(new)
           /\ \A o \in old : o.sent[1].type = "ANNOUNCE_RESPONSE_OLD"
           /\ \A o \in new : o.sent[1].type = "ANNOUNCE_RESPONSE"

\* C37 witness: after the clock has advanced, an announce request with a
\* matching ping id has stored its key at this very time.
C37_Witness ==
    /\ oa_time > ONION_ANNOUNCE_TIMEOUT
    /\ oa_last.packet = "announce_request"
    /\ oa_last.accepted
    /\ oa_last.index >= 0
    /\ oa_last.overwritten = 0
    /\ oa_entries[oa_last.index].announce_time = oa_time

OnionDistance(public_key) == Xor(SelfKey, public_key)

\* Timed-out entries first, then live entries by decreasing distance.
OnionSorted(entries, now) ==
    \A i, j \in OnionSlots :
       i < j =>
          LET live_i == now - entries[i].announce_time < ONION_ANNOUNCE_TIMEOUT
              live_j == now - entries[j].announce_time < ONION_ANNOUNCE_TIMEOUT
          IN  /\ live_i => live_j
              /\ live_i /\ live_j =>
                    OnionDistance(entries[i].public_key) >= OnionDistance(entries[j].public_key)

C39_DataToLiveEntry ==
    \A k \in OnionKeys \cup {0} :
       \A o \in handle_data_request_outcomes(oa_entries, oa_time, k, "data") :
          LET announced == {i \in OnionSlots : oa_entries[i].public_key = k /\ OnionLive(i)}
          IN  /\ o.entries = oa_entries
              /\ announced = {} => o.sent = <<>>
              /\ announced # {} =>
                    /\ Len(o.sent) = 1
                    /\ o.sent[1].type = "ONION_DATA_RESPONSE"
                    /\ o.sent[1].data = "data"
                    /\ \E i \in announced :
                          /\ o.sent[1].to = oa_entries[i].ret_ip_port
                          /\ o.sent[1].ret = oa_entries[i].ret

\* C39 witness: a data request has been forwarded to a live entry while the
\* other slot holds an announcement that has expired.
C39_Witness ==
    /\ oa_last.packet = "data_request"
    /\ oa_last.index >= 0
    /\ OnionLive(oa_last.index)
    /\ \E i \in OnionSlots : ~OnionLive(i) /\ oa_entries[i].public_key \in OnionKeys

\* C40: no two live entries of the table hold the same key, and an announce
\* of a key that has a live entry writes the new address, return path, data
\* key and time into an entry of that key and leaves the other entries as
\* they are.
C40_OneLiveEntryPerKey ==
    /\ \A i, j \in OnionSlots :
          i # j /\ OnionLive(i) /\ OnionLive(j) =>
             oa_entries[i].public_key # oa_entries[j].public_key
    /\ \A k \in OnionKeys, s \in OnionSources, dk \in DataKeys :
          LET pos == in_entries(oa_entries, oa_time, k)
          IN  pos # -1 =>
                 \A o \in add_to_entries(oa_entries, oa_time, s, k, dk, OnionReturn(s)) :
                    /\ o.index >= 0
                    /\ o.entries[o.index] =
                          [public_key |-> k, ret_ip_port |-> s, ret |-> OnionReturn(s),
                           data_public_key |-> dk, announce_time |-> oa_time]
                    /\ {o.entries[i] : i \in OnionSlots \ {o.index}}
                          = {oa_entries[i] : i \in OnionSlots \ {pos}}

\* C40 witness: an announce has overwritten the live entry of its own key
\* at a later time, while the other slot holds a live entry of another key.
C40_Witness ==
    /\ oa_last.accepted
    /\ oa_last.index >= 0
    /\ oa_last.overwritten = oa_entries[oa_last.index].public_key
    /\ oa_entries[oa_last.index].announce_time = oa_time
    /\ oa_time > ONION_ANNOUNCE_TIMEOUT
    /\ \E i \in OnionSlots \ {oa_last.index} : OnionLive(i)

=============================================================================
